---- MODULE Spec2Model ----
(***************************************************************************)
(* Fetch / cache / retry pipeline of gitalytics.                           *)
(*                                                                         *)
(*   CacheService (cacheService.ts 14-213): an IndexedDB object store of   *)
(*   {key, data, timestamp} rows behind a lazily opened handle.            *)
(*   fetchWithCache (cacheService.ts 352-409) and the fetch* functions     *)
(*   that wrap it, fetchDocFile (docsService.ts 115-150).                  *)
(*                                                                         *)
(*   batchFetch (cacheService.ts 412-432) and checkDocumentationFiles      *)
(*   (docsService.ts 153-203): the batch schedulers.                       *)
(*   fetchCodeFrequency, formatDuration, calculateDocScore and the score   *)
(*   of DocumentationChecklist: the mappers and formatters.                *)
(*                                                                         *)
(* Specifications: Spec (fetch pipeline, calls one after the other),       *)
(* FairRetry (the same with the clock at rest, with fairness), SpecStore   *)
(* (direct calls of the cache service), FairInit (overlapping calls on a   *)
(* fresh service), SpecBatch (batch runs), SpecCalc (pure functions).      *)
(*                                                                         *)
(* JavaScript runs one task to completion; an async function is suspended  *)
(* only at an await on an external event (an IndexedDB request event, a    *)
(* network response, a timer).  Every action below is one such task: the   *)
(* event together with all the code that runs until the next suspension.   *)
(* IndexedDB runs the transactions on one object store in the order of     *)
(* their creation, which the queue txq models.                             *)
(***************************************************************************)
EXTENDS Integers, Sequences, FiniteSets, TLC

\* ---------------------------------------------------------------- bounds
MaxEpochs == 1
MaxItems == 5
MaxDocs == 4
MaxCount == 2
MaxResults == 3
MaxExtra == 1
MaxFaults == 1
MaxRuns == 3

\* ------------------------------------------------------ program constants
CACHE_DURATION == 15 * 60 * 1000
DefaultRetries == 2
ThrottleCap == 5000
BackoffUnit == 1000

\* ------------------------------------------------------------ value sets
\* the slots of the calls in flight
Calls == {1, 2}

\* cache keys: "repo:<name>" of fetchRepository, "doc:<baseUrl>/<path>" of
\* fetchDocFile
ApiKeys == {"repo:a"}
DocKeys == {"doc:a/README.md"}
Keys == ApiKeys \cup DocKeys

\* JSON bodies of a 2xx response: a truthy object, a truthy object that has a
\* field status = 404, a falsy value (0, false, "")
Bodies == {"obj", "obj404", "zero"}
\* the negative marker { status: 404, url } / { status: 404, path }
NegMarker == "neg"
NULL == "null"
NoEntry == [data |-> NULL, timestamp |-> -1]
NoHint == -1
NoProbe == [t |-> -1, written |-> FALSE]
NoDatabase == [opens |-> 0, table |-> FALSE]
\* the values handed to cacheService.set by a direct caller
SetValues == {"obj", NegMarker}
\* X-RateLimit-Reset relative to the time of the response, in ms
ResetOffsets == {-1000, 3000, 9000}
\* the clock steps: to the expiry boundary of an entry, and past it
TickSteps == {CACHE_DURATION} \cup {CACHE_DURATION + x : x \in 1..MaxExtra}

VARIABLES
  now,      \* Date.now()
  faults,   \* number of failed store requests so far
  db,       \* CacheService.db: "null" or "open"
  idb,      \* the IndexedDB database: connections opened, apiCache created
  store,    \* the rows of the object store apiCache, by key
  txq,      \* the transactions created and not yet run, oldest first
  call,     \* the calls in flight
  negAt,    \* history: per key, the last upstream 404 of a probe of the key
  purged,   \* history: per key, the timestamp of the row a get found expired
            \* and whose delete has not run yet
  batch,    \* the run of batchFetch / checkDocumentationFiles in progress
  calc,     \* the call of a pure function: its input and its result
  dash      \* the state of the Dashboard component and its fetchData runs

vars ==
  <<now, faults, db, idb, store, txq, call, negAt, purged, batch, calc, dash>>
pipeline == <<now, faults, db, idb, store, txq, call, negAt, purged>>
hist == <<negAt, purged>>

\* ------------------------------------------------------------ pure parts
\* mutants of the expiry test: the duration taken in seconds; the boundary
\* taken as expired
IsExpiredSeconds(timestamp, t) == t - timestamp > 15 * 60
IsExpiredInclusive(timestamp, t) == t - timestamp >= CACHE_DURATION

\* the expiry test of CacheService.get
IsExpired(timestamp, t) == t - timestamp > CACHE_DURATION

\* JavaScript truthiness of a value returned by cacheService.get
Truthy(d) == d \notin {NULL, "zero"}

\* cachedData.status === 404
HasStatus404(d) == d \in {NegMarker, "obj404"}

\* response.ok
ResponseOk(status) == status >= 200 /\ status <= 299

\* mutant of waitTime: a missing reset header counts as a long wait
WaitTimeMissingIsLong(hint, t) == IF hint = NoHint THEN ThrottleCap ELSE hint - t

\* waitTime of the throttle branch; hint is the reset time in ms or NoHint
WaitTime(hint, t) == IF hint = NoHint THEN 0 ELSE hint - t

Min(a, b) == IF a < b THEN a ELSE b

\* mutant of the throttle delay: the wait is not capped
ThrottleDelayUncapped(waitTime) == waitTime

\* the delay of the throttle branch
ThrottleDelay(waitTime) == Min(waitTime, ThrottleCap)

\* mutant of the backoff: the same delay after every attempt
BackoffDelayFlat(i) == BackoffUnit

\* the delay of the catch block after attempt i (0-based)
BackoffDelay(i) == BackoffUnit * (i + 1)

\* error.response of an error thrown by fetchWithCache, fetch or the cache:
\* all of them are Error / DOMException objects without a response field
ErrResponseStatus(err) == 0

\* the notification handleApiError shows
HandleApiError(err) ==
  IF ErrResponseStatus(err) = 403 THEN "rate"
  ELSE IF ErrResponseStatus(err) = 404 THEN "notfound"
  ELSE "generic"

\* --------------------------------------------------------------- records
NoSleep == [kind |-> "none", delay |-> 0, wait |-> 0]

IdleCall ==
  [fn |-> "none", key |-> "none", pc |-> "idle", i |-> 0, lastError |-> "none",
   net |-> 0, pend |-> "none", sleep |-> NoSleep,
   ret |-> NULL, entries |-> {}, err |-> "none", rejected |-> FALSE,
   toast |-> "none", after |-> <<>>, arg |-> NULL, count |-> -1,
   prev |-> NoEntry, wrote |-> <<>>, last |-> FALSE]

Tx(op, key, data, ts, owner) ==
  [op |-> op, key |-> key, data |-> data, ts |-> ts, owner |-> owner]

\* the responses the network can deliver at time t
Responses(t) ==
  {[status |-> 200, body |-> b, hint |-> NoHint] : b \in Bodies \cup {"badjson"}}
  \cup {[status |-> s, body |-> "none", hint |-> NoHint] : s \in {0, 404, 500}}
  \cup {[status |-> 403, body |-> "none", hint |-> h] :
          h \in {NoHint} \cup {t + o : o \in ResetOffsets}}

\* ---------------------------------------------------- ends of the calls
\* the call returns ret or throws err; the fetch* wrappers catch err, show
\* the notification of handleApiError and return null
Finish(r, ret, err) ==
  IF r.fn = "api" /\ err # "none"
  THEN [r EXCEPT !.pc = "done", !.pend = "none", !.ret = NULL, !.err = err,
                 !.toast = HandleApiError(err)]
  ELSE [r EXCEPT !.pc = "done", !.pend = "none", !.ret = ret, !.err = err,
                 !.rejected = (err # "none")]

\* await fetch(url, options)
IssueFetch(r) == [r EXCEPT !.pc = "fetching", !.net = @ + 1]

\* mutant of the catch block: one retry too many
CatchBlockOffByOne(r, err, t) ==
  IF err = "404" THEN Finish(r, NULL, "404")
  ELSE IF r.i <= DefaultRetries
       THEN [r EXCEPT !.lastError = err, !.pc = "sleeping",
                      !.sleep = [kind |-> "backoff",
                                 delay |-> BackoffDelay(r.i), wait |-> 0]]
       ELSE Finish([r EXCEPT !.lastError = err], NULL, err)

\* the catch block of fetchWithCache, the loop increment and the final throw
CatchBlock(r, err, t) ==
  IF err = "404" THEN Finish(r, NULL, "404")
  ELSE IF r.i < DefaultRetries
       THEN [r EXCEPT !.lastError = err, !.pc = "sleeping",
                      !.sleep = [kind |-> "backoff",
                                 delay |-> BackoffDelay(r.i), wait |-> 0]]
       ELSE Finish([r EXCEPT !.lastError = err], NULL, err)

\* the catch block of fetchDocFile: the messages of the errors that reach it
\* ("HTTP error! Status: 403/500", a network TypeError, a JSON SyntaxError,
\* a DOMException of the store) do not contain "404"
DocCatch(r, err) == [Finish(r, NULL, "none") EXCEPT !.lastError = err]

\* the code after `await cacheService.get(cacheKey)` in fetchWithCache and
\* fetchDocFile, and the resolution of a plain get
AfterLookup(r, data) ==
  CASE r.fn = "get" -> Finish(r, data, "none")
    [] r.fn = "api" ->
         IF Truthy(data)
         THEN IF HasStatus404(data) THEN Finish(r, NULL, "404")
              ELSE Finish(r, data, "none")
         ELSE IssueFetch(r)
    [] r.fn = "doc" ->
         IF Truthy(data)
         THEN IF HasStatus404(data) THEN Finish(r, NULL, "none")
              ELSE Finish(r, data, "none")
         ELSE IssueFetch(r)

\* the throttle branch of fetchWithCache: sleep and `continue`; waitTime is
\* kept with the timer as history
ThrottleSleep(r, waitTime, t) ==
  [r EXCEPT !.pc = "sleeping",
            !.sleep = [kind |-> "throttle", delay |-> ThrottleDelay(waitTime),
                       wait |-> waitTime]]

\* `await cacheService.set(cacheKey, data)`: the handle is open (the lookup
\* went through it), so set creates its transaction in the same task
AwaitSet(r, kind) == [r EXCEPT !.pc = "putting", !.pend = kind]

\* the first store request of a call: getStats reads all rows, set puts a
\* row stamped Date.now(), delete deletes the row of its key, clearAll counts
\* and clears, the others read the row of their key
FirstTx(r, c) ==
  CASE r.fn = "stats" -> Tx("getAll", "none", NULL, 0, c)
    [] r.fn = "set" -> Tx("put", r.key, r.arg, now, c)
    [] r.fn \in {"delete", "clearDocs"} -> Tx("delete", r.key, NULL, 0, c)
    [] r.fn = "clear" -> Tx("clear", "none", NULL, 0, c)
    [] OTHER -> Tx("get", r.key, NULL, 0, c)

\* mutant of the guard of init: the handle is never taken for set
HandleSetNever(d) == FALSE

\* `if (this.db) return;` of init
HandleSet(d) == d = "open"

\* init itself makes no store request
FirstTxs(r, c) == IF r.fn = "init" THEN <<>> ELSE <<FirstTx(r, c)>>

\* what a method does once `await this.init()` has resolved: init is done,
\* the others wait for their store request
Proceed(r) ==
  CASE r.fn = "init" -> Finish(r, NULL, "none")
    [] r.fn = "set" -> [r EXCEPT !.pc = "putting"]
    [] r.fn \in {"delete", "clearDocs"} -> [r EXCEPT !.pc = "deleting"]
    [] r.fn = "clear" -> [r EXCEPT !.pc = "clearing"]
    [] OTHER -> [r EXCEPT !.pc = "getting"]

\* the rows getAll returns
AllEntries(st) ==
  {[key |-> k, data |-> st[k].data, timestamp |-> st[k].timestamp] :
     k \in {x \in Keys : st[x] # NoEntry}}

KeysOf(fn) ==
  CASE fn = "api" -> ApiKeys
    [] fn = "doc" -> DocKeys
    [] fn = "get" -> Keys
    [] fn = "stats" -> {"none"}
    [] fn = "set" -> Keys
    [] fn = "delete" -> Keys
    [] fn = "clear" -> {"none"}
    [] fn = "init" -> {"none"}

\* ------------------------------------------------------- batch scheduler
\* number of paths (path and alternativePaths) of each documentationFiles
\* entry, in list order
DocPathCount == <<4, 4, 4, 3, 3, 3, 3, 4, 3, 3>>
\* the group size of checkDocumentationFiles (batchFetch is called with
\* batchSize 2 or 3, its default)
DocBatchSize == 3
BatchFetchDelay == 1000
DocBatchDelay == 500

Unset == [item |-> 0, ok |-> FALSE, path |-> 0]
IdleBatch ==
  [fn |-> "none", n |-> 0, bs |-> 0, pc |-> "idle", i |-> 0,
   slots |-> <<>>, order |-> <<>>, results |-> <<>>, groups |-> <<>>,
   pauses |-> <<>>, out |-> [x \in 1..MaxItems |-> Unset],
   ret |-> "none", toast |-> "none", failed |-> FALSE, rejects |-> {}]

\* items.slice(i, i + batchSize) of batchFetch: the items at the 0-based
\* indices i .. i + batchSize - 1, as 1-based item numbers
SliceGroup(i, bs, n) == [x \in 1..(Min(i + bs, n) - i) |-> i + x]

\* batchedFiles of checkDocumentationFiles: file number x (0-based index
\* x - 1) goes to batch floor(index / 3); g is the 0-based batch index
DocBatch(g, n) ==
  LET members == {x \in 1..n : (x - 1) \div DocBatchSize = g}
  IN [y \in 1..Cardinality(members) |-> g * DocBatchSize + y]

\* batchedFiles.length
DocBatchCount(n) == (n + DocBatchSize - 1) \div DocBatchSize

\* mutant of the collection: the values in the order of completion
CollectByCompletion(slots, order) ==
  [x \in 1..Len(slots) |-> slots[order[x]].val]

\* the array Promise.all resolves to: the value of each promise at the
\* position of the promise, whatever the order of completion
CollectGroup(slots, order) == [x \in 1..Len(slots) |-> slots[x].val]

\* batchResults.filter(Boolean)
FilterBoolean(vals) == SelectSeq(vals, LAMBDA v : v.ok)

\* the group that starts at loop position i
GroupAt(b, i) ==
  IF b.fn = "batchFetch" THEN SliceGroup(i, b.bs, b.n) ELSE DocBatch(i, b.n)

\* batch.map(...) starts one worker per item of the group; none is awaited
\* before all are started
StartGroup(b, i) ==
  LET g == GroupAt(b, i) IN
    [b EXCEPT !.pc = "running", !.i = i,
              !.slots = [x \in 1..Len(g) |->
                           [item |-> g[x], state |-> "pending", path |-> 1,
                            hit |-> 0, val |-> Unset]],
              !.order = <<>>,
              !.groups = Append(@, g)]

\* the loop condition: another group exists at position i
HasGroup(b, i) ==
  IF b.fn = "batchFetch" THEN i < b.n ELSE i < DocBatchCount(b.n)

\* mutant of the pause test: a pause after every group, the last included
PauseAfterAlways(b) == TRUE

\* the pause test after a group
PauseAfter(b) ==
  IF b.fn = "batchFetch" THEN b.i + b.bs < b.n
  ELSE b.i < DocBatchCount(b.n) - 1

\* Promise.all has resolved: push the results, then pause or return
GroupDone(b) ==
  LET vals == CollectGroup(b.slots, b.order)
      kept == IF b.fn = "batchFetch" THEN FilterBoolean(vals) ELSE vals
      b2 == [b EXCEPT !.results = @ \o kept]
  IN IF PauseAfter(b)
     THEN [b2 EXCEPT !.pc = "pacing",
                     !.pauses = Append(@,
                        [after |-> b.slots[Len(b.slots)].item,
                         delay |-> IF b.fn = "batchFetch" THEN BatchFetchDelay
                                   ELSE DocBatchDelay])]
     ELSE [b2 EXCEPT !.pc = "done", !.ret = "results"]

\* mutant of the wait for the group: the loop goes on when the first promise
\* settles
SettleFirst(b, x, v) ==
  GroupDone([b EXCEPT !.slots[x].state = "settled", !.slots[x].val = v,
                      !.order = Append(@, x),
                      !.out[b.slots[x].item] = v])

\* the promise of slot x settles with value v
Settle(b, x, v) ==
  LET b2 == [b EXCEPT !.slots[x].state = "settled", !.slots[x].val = v,
                      !.order = Append(@, x),
                      !.out[b.slots[x].item] = v]
  IN IF \A y \in 1..Len(b2.slots) : b2.slots[y].state = "settled"
     THEN GroupDone(b2) ELSE b2

\* -------------------------------------------------- mappers, formatters
Abs(x) == IF x < 0 THEN -x ELSE x

\* raw tuples [week, additions, deletions] of /stats/code_frequency
RawTuples == {<<1690000000, a, d>> : a \in {0, 5000}, d \in {0, -1, -1200}}

\* an element of the array fetchCodeFrequency returns: a {week, additions,
\* deletions} record, or the raw tuple as the JSON body carries it
NoRow == [shape |-> "none", week |-> 0, additions |-> 0, deletions |-> 0]
RecordRow(w, a, d) ==
  [shape |-> "record", week |-> w, additions |-> a, deletions |-> d]
TupleRow(t) ==
  [shape |-> "tuple", week |-> t[1], additions |-> t[2], deletions |-> t[3]]

\* the map callback of fetchCodeFrequency in githubService.ts
MapCodeFrequency(item) == RecordRow(item[1], item[2], Abs(item[3]))

\* fetchCodeFrequency of cacheService.ts returns what fetchWithCache returns:
\* the parsed JSON body, from the network or from the cache
CachedCodeFrequency(item) == TupleRow(item)

\* the inputs of formatDuration: null, and the multiples of the units with
\* their neighbours
DurationInputs ==
  {[null |-> TRUE, ms |-> 0]} \cup
  {[null |-> FALSE, ms |-> m] :
     m \in {k * u + d : u \in {1000, 60 * 1000, 60 * 60 * 1000,
                                 24 * 60 * 60 * 1000},
                        k \in 0..MaxCount,
                        d \in {-1, 0, 1, 1000}} \cap Nat}
  \cup {[null |-> FALSE, ms |-> m] : m \in {61000, 3700000, 90000000}}

\* a duration text: "<n> <unit>" with the plural s, or "N/A"
Text(n, unit) == [n |-> n, unit |-> unit, s |-> n # 1]
NotAvailable == [n |-> 0, unit |-> "N/A", s |-> FALSE]

\* mutant of formatDuration: the days taken from the seconds
FormatDurationDaysOfSeconds(d) ==
  IF d.null THEN NotAvailable
  ELSE LET seconds == d.ms \div 1000
           minutes == seconds \div 60
           hours == minutes \div 60
           days == seconds \div 24
       IN IF days > 0 THEN Text(days, "day")
          ELSE IF hours > 0 THEN Text(hours, "hour")
          ELSE IF minutes > 0 THEN Text(minutes, "minute")
          ELSE Text(seconds, "second")

\* formatDuration
FormatDuration(d) ==
  IF d.null THEN NotAvailable
  ELSE LET seconds == d.ms \div 1000
           minutes == seconds \div 60
           hours == minutes \div 60
           days == hours \div 24
       IN IF days > 0 THEN Text(days, "day")
          ELSE IF hours > 0 THEN Text(hours, "hour")
          ELSE IF minutes > 0 THEN Text(minutes, "minute")
          ELSE Text(seconds, "second")

\* check results: the importance of the descriptor and exists
DocResults ==
  [importance : {"critical", "recommended", "optional"}, exists : BOOLEAN]
RECURSIVE SeqsUpTo(_, _)
SeqsUpTo(S, n) ==
  IF n = 0 THEN {<<>>}
  ELSE LET shorter == SeqsUpTo(S, n - 1)
       IN shorter \cup {Append(q, x) : q \in shorter, x \in S}
ResultLists == SeqsUpTo(DocResults, MaxResults)

\* the weights of calculateDocScore
Weight(tier) ==
  CASE tier = "critical" -> 40
    [] tier = "recommended" -> 25
    [] tier = "optional" -> 10

\* results.reduce((sum, result) => sum + ..., 0): the weights of all
\* results, or of the results that exist
RECURSIVE SumWeights(_, _)
SumWeights(list, existingOnly) ==
  IF list = <<>> THEN 0
  ELSE (IF existingOnly /\ ~Head(list).exists THEN 0
        ELSE Weight(Head(list).importance))
       + SumWeights(Tail(list), existingOnly)

\* Math.round(p / q) for p >= 0, q > 0: halves go up
Round(p, q) == (2 * p + q) \div (2 * q)

\* a score: a number, or NaN
NoScore == [set |-> FALSE, nan |-> FALSE, val |-> 0]
Score(v) == [set |-> TRUE, nan |-> FALSE, val |-> v]
NaNScore == [set |-> TRUE, nan |-> TRUE, val |-> 0]

\* calculateDocScore
CalculateDocScore(results) ==
  IF Len(results) = 0 THEN Score(0)
  ELSE LET totalPossibleScore == SumWeights(results, FALSE)
           actualScore == SumWeights(results, TRUE)
       IN Score(Round(actualScore * 100, totalPossibleScore))

\* the score of DocumentationChecklist: per tier the share of the files that
\* exist, times 40, 25 and 10; a tier without files gives 0 / 0 = NaN
ChecklistScore(results) ==
  LET files(tier) == SelectSeq(results, LAMBDA r : r.importance = tier)
      found(tier) == SelectSeq(files(tier), LAMBDA r : r.exists)
      tc == Len(files("critical"))
      tr == Len(files("recommended"))
      to == Len(files("optional"))
      cc == Len(found("critical"))
      rc == Len(found("recommended"))
      oc == Len(found("optional"))
  IN IF tc = 0 \/ tr = 0 \/ to = 0 THEN NaNScore
     ELSE Score(Round(cc * 40 * tr * to + rc * 25 * tc * to + oc * 10 * tc * tr,
                      tc * tr * to))

\* ------------------------------------------------------------ cache keys
\* repository identifiers as the `repo` search parameter delivers them: any
\* string, also one that carries the separators of the key templates
Repos == {"o/n", "o/m", "o/n:all", "o/n:10", "o/n/contents/docs"}

\* the `state` query values of the issues and pulls endpoints
States == {"all", "open"}

Limits == {10, 100}

\* documentationFiles: the path and the alternativePaths of each descriptor
DocumentationFiles ==
  << [path |-> "README.md",
      alternativePaths |-> <<"README", "README.txt", "Readme.md">>],
     [path |-> "LICENSE",
      alternativePaths |-> <<"LICENSE.md", "LICENSE.txt", "COPYING">>],
     [path |-> "CONTRIBUTING.md",
      alternativePaths |-> <<"CONTRIBUTING", "CONTRIBUTE.md",
                             "docs/CONTRIBUTING.md">>],
     [path |-> "CODE_OF_CONDUCT.md",
      alternativePaths |-> <<"CODE-OF-CONDUCT.md", "docs/CODE_OF_CONDUCT.md">>],
     [path |-> ".github/ISSUE_TEMPLATE",
      alternativePaths |-> <<".github/ISSUE_TEMPLATE.md",
                             "docs/ISSUE_TEMPLATE.md">>],
     [path |-> ".github/PULL_REQUEST_TEMPLATE.md",
      alternativePaths |-> <<".github/PULL_REQUEST_TEMPLATE",
                             "docs/PULL_REQUEST_TEMPLATE.md">>],
     [path |-> "SECURITY.md",
      alternativePaths |-> <<".github/SECURITY.md", "docs/SECURITY.md">>],
     [path |-> "CHANGELOG.md",
      alternativePaths |-> <<"CHANGELOG", "CHANGES.md", "HISTORY.md">>],
     [path |-> "SUPPORT.md",
      alternativePaths |-> <<".github/SUPPORT.md", "docs/SUPPORT.md">>],
     [path |-> "GOVERNANCE.md",
      alternativePaths |-> <<"docs/GOVERNANCE.md", "governance/README.md">>] >>

\* `[file.path, ...(file.alternativePaths || [])]` of checkDocumentationFiles
ProbePaths(file) == <<file.path>> \o file.alternativePaths

\* mutant of allPaths of clearDocsCache: the primary path only
AllPathsPrimaryOnly(file) == <<file.path>>

\* `[file.path, ...(file.alternativePaths || [])]` of clearDocsCache
AllPaths(file) == <<file.path>> \o file.alternativePaths

\* the paths fetchDocFile is called with
DocPaths ==
  UNION {{ProbePaths(DocumentationFiles[x])[y] :
            y \in 1..Len(ProbePaths(DocumentationFiles[x]))} :
           x \in 1..Len(DocumentationFiles)}

\* the files areDocsCached looks up
MainFiles == {"README.md", "LICENSE"}

\* an argument left out of a call, and one that is passed
Omitted == [given |-> FALSE, v |-> 0, s |-> ""]
GivenLimit(n) == [given |-> TRUE, v |-> n, s |-> ""]
GivenState(s) == [given |-> TRUE, v |-> 0, s |-> s]

\* the parameter defaults `limit = 10`, `state = "all"`, `limit = 100`
LimitOr(arg, default) == IF arg.given THEN arg.v ELSE default
StateOr(arg, default) == IF arg.given THEN arg.s ELSE default

\* `repo:${repoFullName}`
RepositoryKey(repoFullName) == "repo:" \o repoFullName

\* `contributors:${repoFullName}:${limit}`
ContributorsKey(repoFullName, limit) ==
  "contributors:" \o repoFullName \o ":" \o ToString(limit)

\* `issues:${repoFullName}:${state}:${limit}`
IssuesKeyNoState(repoFullName, state, limit) ==
  "issues:" \o repoFullName \o ":" \o ToString(limit)
IssuesKey(repoFullName, state, limit) ==
  "issues:" \o repoFullName \o ":" \o state \o ":" \o ToString(limit)

\* `pulls:${repoFullName}:${state}:${limit}`
PullsKey(repoFullName, state, limit) ==
  "pulls:" \o repoFullName \o ":" \o state \o ":" \o ToString(limit)

\* `commit-activity:${repoFullName}`
CommitActivityKey(repoFullName) == "commit-activity:" \o repoFullName

\* `code-frequency:${repoFullName}`
CodeFrequencyKey(repoFullName) == "code-frequency:" \o repoFullName

\* `releases:${repoFullName}:${limit}`
ReleasesKey(repoFullName, limit) ==
  "releases:" \o repoFullName \o ":" \o ToString(limit)

\* `https://api.github.com/repos/${repoFullName}/contents`
BaseUrl(repoFullName) ==
  "https://api.github.com/repos/" \o repoFullName \o "/contents"

\* `doc:${baseUrl}/${path}`
DocKey(baseUrl, path) == "doc:" \o baseUrl \o "/" \o path

\* the resource a key-building function names
KindOf(fn) ==
  CASE fn \in {"fetchRepository", "isDataCached"} -> "repo"
    [] fn = "fetchContributors" -> "contributors"
    [] fn = "fetchIssues" -> "issues"
    [] fn = "fetchPullRequests" -> "pulls"
    [] fn = "fetchCommitActivity" -> "commit-activity"
    [] fn = "fetchCodeFrequency" -> "code-frequency"
    [] fn = "fetchReleases" -> "releases"
    [] OTHER -> "doc"

\* a call of one of these functions with its arguments
KeyRequest(fn, repo, state, limit, path) ==
  [fn |-> fn, repo |-> repo, state |-> state, limit |-> limit, path |-> path]

KeyRequests ==
  {KeyRequest(fn, r, Omitted, Omitted, "") :
     fn \in {"fetchRepository", "isDataCached", "fetchCommitActivity",
             "fetchCodeFrequency"}, r \in Repos}
  \cup {KeyRequest(fn, r, Omitted, l, "") :
          fn \in {"fetchContributors", "fetchReleases"}, r \in Repos,
          l \in {Omitted} \cup {GivenLimit(n) : n \in Limits}}
  \cup {KeyRequest(fn, r, s, l, "") :
          fn \in {"fetchIssues", "fetchPullRequests"}, r \in Repos,
          s \in {Omitted} \cup {GivenState(x) : x \in States},
          l \in {Omitted} \cup {GivenLimit(n) : n \in Limits}}
  \cup {KeyRequest(fn, r, Omitted, Omitted, p) :
          fn \in {"fetchDocFile", "clearDocsCache"}, r \in Repos,
          p \in DocPaths}
  \cup {KeyRequest("areDocsCached", r, Omitted, Omitted, p) :
          r \in Repos, p \in MainFiles}

\* the cacheKey the function builds for the call
CacheKeyOf(q) ==
  CASE q.fn \in {"fetchRepository", "isDataCached"} -> RepositoryKey(q.repo)
    [] q.fn = "fetchContributors" ->
         ContributorsKey(q.repo, LimitOr(q.limit, 10))
    [] q.fn = "fetchIssues" ->
         IssuesKey(q.repo, StateOr(q.state, "all"), LimitOr(q.limit, 100))
    [] q.fn = "fetchPullRequests" ->
         PullsKey(q.repo, StateOr(q.state, "all"), LimitOr(q.limit, 100))
    [] q.fn = "fetchCommitActivity" -> CommitActivityKey(q.repo)
    [] q.fn = "fetchCodeFrequency" -> CodeFrequencyKey(q.repo)
    [] q.fn = "fetchReleases" -> ReleasesKey(q.repo, LimitOr(q.limit, 10))
    [] OTHER -> DocKey(BaseUrl(q.repo), q.path)

\* the request sent upstream: the resource, the repository and the query
\* values of the url the function fetches
UpstreamRequest(q) ==
  [kind |-> KindOf(q.fn), repo |-> q.repo, path |-> q.path,
   state |-> IF KindOf(q.fn) \in {"issues", "pulls"}
             THEN StateOr(q.state, "all") ELSE "",
   limit |-> CASE KindOf(q.fn) \in {"contributors", "releases"} ->
                    LimitOr(q.limit, 10)
               [] KindOf(q.fn) \in {"issues", "pulls"} -> LimitOr(q.limit, 100)
               [] OTHER -> 0]

NoKey == [set |-> FALSE, req |-> KeyRequest("none", "", Omitted, Omitted, ""),
          key |-> ""]

\* ------------------------------------------------- documentation cache
\* the keys checkDocumentationFiles(repoFullName) hands to fetchDocFile
WrittenKeys(repoFullName) ==
  {DocKey(BaseUrl(repoFullName), p) : p \in DocPaths}

\* the keys clearDocsCache(repoFullName) deletes, in the order of its loops,
\* from descriptor x on
RECURSIVE ClearKeysFrom(_, _)
ClearKeysFrom(repoFullName, x) ==
  IF x > Len(DocumentationFiles) THEN <<>>
  ELSE [y \in 1..Len(AllPaths(DocumentationFiles[x])) |->
          DocKey(BaseUrl(repoFullName), AllPaths(DocumentationFiles[x])[y])]
       \o ClearKeysFrom(repoFullName, x + 1)

ClearKeys(repoFullName) == ClearKeysFrom(repoFullName, 1)

\* the repositories whose documentation has been checked, and the keys of
\* the rows the dashboard has written for them
DocRepos == {"o/n", "o/n/contents/docs"}
DocStoreKeys ==
  UNION {WrittenKeys(r) \cup {RepositoryKey(r), IssuesKey(r, "all", 100)} :
           r \in DocRepos}

\* the rows a check of the documentation leaves behind: the payload of the
\* file that exists, the marker for a path that does not
DocRow(path) ==
  [data |-> IF path = "README.md" THEN "obj" ELSE NegMarker, timestamp |-> 0]

\* how far the checks got: nothing probed, the primary paths, every path
FilledPaths(fill) ==
  CASE fill = "none" -> {}
    [] fill = "primary" ->
         {DocumentationFiles[x].path : x \in 1..Len(DocumentationFiles)}
    [] OTHER -> DocPaths

\* the store after the dashboard has loaded the repositories
DocStore(fill, api) ==
  [k \in DocStoreKeys |->
     IF \E r \in DocRepos : k \in {RepositoryKey(r), IssuesKey(r, "all", 100)}
     THEN IF api THEN [data |-> "obj", timestamp |-> 0] ELSE NoEntry
     ELSE IF \E r \in DocRepos : \E p \in FilledPaths(fill[r]) :
               k = DocKey(BaseUrl(r), p)
          THEN LET probe == CHOOSE rp \in DocRepos \X DocPaths :
                                k = DocKey(BaseUrl(rp[1]), rp[2])
               IN DocRow(probe[2])
          ELSE NoEntry]

\* ------------------------------------------------------------- dashboard
\* the repositories the user selects
DashRepos == {"o/n", "o/m"}

\* useState(null) of repoFullName and of the data; useState(false) of
\* isLoading.  `repository` and `details` (contributors .. docResults, set
\* in one task) hold the repository their data was fetched for; `effect`
\* is the repoFullName the fetch effect last ran for; `runs` are the calls
\* of fetchData, oldest first
IdleDash ==
  [repoFullName |-> NULL, effect |-> NULL, repository |-> NULL,
   details |-> NULL, isLoading |-> FALSE, runs |-> <<>>]

IdleCalc ==
  [fn |-> "none", pc |-> "idle", d |-> [null |-> TRUE, ms |-> 0],
   item |-> <<0, 0, 0>>, results |-> <<>>,
   text |-> NotAvailable, impl |-> "none", how |-> "none", row |-> NoRow,
   toast |-> "none", score |-> NoScore, shown |-> NoScore,
   first |-> NoKey, second |-> NoKey]

\* the calls to be made, with their arguments
CalcInputs ==
  {[IdleCalc EXCEPT !.fn = "formatDuration", !.pc = "in", !.d = d] :
     d \in DurationInputs}
  \cup {[IdleCalc EXCEPT !.fn = "fetchCodeFrequency", !.pc = "in", !.item = t] :
          t \in RawTuples}
  \cup {[IdleCalc EXCEPT !.fn = "docScore", !.pc = "in", !.results = l] :
          l \in ResultLists}

\* ------------------------------------------------------------------ Init
Init ==
  /\ now = 0
  /\ faults = 0
  /\ db = "null"
  /\ idb = NoDatabase
  /\ store = [k \in Keys |-> NoEntry]
  /\ txq = <<>>
  /\ call = [c \in Calls |-> IdleCall]
  /\ negAt = [k \in Keys |-> NoProbe]
  /\ purged = [k \in Keys |-> -1]
  /\ batch = IdleBatch
  /\ calc = IdleCalc
  /\ dash = IdleDash

\* --------------------------------------------------------------- actions
\* A caller invokes fetchRepository (fn "api"), fetchDocFile ("doc"),
\* cacheService.get ("get") or cacheService.getStats ("stats").  Each starts
\* with `await this.init()`: with the handle set the store request is made
\* in the same task, otherwise indexedDB.open is requested.
Start(c, fn, k) ==
  /\ call[c].pc = "idle"
  /\ \A d \in Calls : d < c => call[d].pc # "idle"
  /\ \A d \in Calls : call[d].pc = "idle"
  /\ k \in KeysOf(fn)
  /\ LET r == [IdleCall EXCEPT !.fn = fn, !.key = k,
                              !.after = IF fn = "stats" THEN purged ELSE <<>>] IN
       IF HandleSet(db)
       THEN /\ call' = [call EXCEPT ![c] = [r EXCEPT !.pc = "getting"]]
            /\ txq' = Append(txq, FirstTx(r, c))
       ELSE /\ call' = [call EXCEPT ![c] = [r EXCEPT !.pc = "opening"]]
            /\ txq' = txq
  /\ UNCHANGED <<dash, calc, batch, idb, now, faults, db, store, hist>>

\* request.onsuccess of init (after onupgradeneeded, which creates apiCache
\* on the first open): the handle is stored and the caller goes on
OpenSuccess(c) ==
  /\ call[c].pc = "opening"
  /\ db' = "open"
  /\ idb' = [opens |-> idb.opens + 1, table |-> TRUE]
  /\ call' = [call EXCEPT ![c] = Proceed(call[c])]
  /\ txq' = txq \o FirstTxs(call[c], c)
  /\ UNCHANGED <<dash, calc, batch, now, faults, store, hist>>

\* request.onerror of init: init rejects, and so does the method awaiting it
OpenError(c) ==
  /\ call[c].pc = "opening"
  /\ faults < MaxFaults
  /\ faults' = faults + 1
  /\ call' = [call EXCEPT ![c] = Finish(call[c], NULL, "store")]
  /\ UNCHANGED <<dash, calc, batch, idb, now, db, store, txq, hist>>

\* mutant of the purge: the expired row is left in place
PurgeTxsNone(key, expired) == <<>>

\* mutant of the purge: every row that is read is deleted
PurgeTxsEveryRead(key, expired) == <<Tx("delete", key, NULL, 0, 0)>>

\* `this.delete(key)` of an expired read: not awaited; delete finds the
\* handle set and creates its transaction before the task ends
PurgeTxs(key, expired) ==
  IF expired THEN <<Tx("delete", key, NULL, 0, 0)>> ELSE <<>>

\* request.onsuccess of get, and what the caller does with the result
StoreGet ==
  /\ txq # <<>>
  /\ Head(txq).op = "get"
  /\ LET tx == Head(txq)
         c == tx.owner
         e == store[tx.key]
         expired == e # NoEntry /\ IsExpired(e.timestamp, now)
         data == IF e = NoEntry \/ expired THEN NULL ELSE e.data
         r2 == AfterLookup(call[c], data)
     IN /\ call' = [call EXCEPT ![c] = r2]
        /\ txq' = Tail(txq) \o PurgeTxs(tx.key, expired)
        /\ purged' = IF expired THEN [purged EXCEPT ![tx.key] = e.timestamp]
                      ELSE purged
  /\ UNCHANGED <<dash, calc, batch, idb, now, faults, db, store, negAt>>

\* the loops of clearDocsCache have keys left after the one just deleted
MoreToClear(r) == r.fn = "clearDocs" /\ r.i < Len(ClearKeys(r.arg))

\* `await cacheService.delete(cacheKey)` has resolved: clearDocsCache goes
\* on to its next key, the handle being set; any other caller is done
AfterDelete(r) ==
  IF MoreToClear(r)
  THEN [r EXCEPT !.i = @ + 1, !.key = ClearKeys(r.arg)[r.i + 1]]
  ELSE Finish(r, NULL, "none")

NextDeletes(r, c) ==
  IF MoreToClear(r)
  THEN <<Tx("delete", ClearKeys(r.arg)[r.i + 1], NULL, 0, c)>>
  ELSE <<>>

\* request.onsuccess of delete
StoreDelete ==
  /\ txq # <<>>
  /\ Head(txq).op = "delete"
  /\ store' = [store EXCEPT ![Head(txq).key] = NoEntry]
  /\ txq' = Tail(txq) \o (IF Head(txq).owner \in Calls
                          THEN NextDeletes(call[Head(txq).owner],
                                           Head(txq).owner)
                          ELSE <<>>)
  /\ negAt' = [negAt EXCEPT ![Head(txq).key] = NoProbe]
  /\ purged' = [purged EXCEPT ![Head(txq).key] = -1]
  /\ call' = IF Head(txq).owner \in Calls
             THEN [call EXCEPT ![Head(txq).owner] = AfterDelete(@)]
             ELSE call
  /\ UNCHANGED <<dash, calc, batch, idb, now, faults, db>>

\* request.onsuccess of getAll
StoreGetAll ==
  /\ txq # <<>>
  /\ Head(txq).op = "getAll"
  /\ LET c == Head(txq).owner IN
       call' = [call EXCEPT ![c] =
                  [Finish(call[c], NULL, "none") EXCEPT
                     !.entries = AllEntries(store)]]
  /\ txq' = Tail(txq)
  /\ UNCHANGED <<dash, calc, batch, idb, now, faults, db, store, hist>>

\* what follows `await cacheService.set(...)` when set resolves
AfterSet(r, data, t) ==
  CASE r.fn = "api" /\ r.pend = "ok" -> Finish(r, data, "none")
    [] r.fn = "api" /\ r.pend = "404" -> CatchBlock(r, "404", t)
    [] r.fn = "doc" /\ r.pend = "ok" -> Finish(r, data, "none")
    [] r.fn = "doc" /\ r.pend = "404" -> Finish(r, NULL, "none")
    [] r.fn = "set" -> Finish(r, NULL, "none")

\* mutant of the rejected set: the rejection is ignored and the call ends as
\* if the row had been written
AfterSetErrorIgnored(r, t) ==
  Finish(r, r.ret, IF r.pend = "404" THEN "404" ELSE "none")

\* what follows when set rejects
AfterSetError(r, t) ==
  CASE r.fn = "api" -> CatchBlock(r, "store", t)
    [] r.fn = "doc" -> DocCatch(r, "store")
    [] r.fn = "set" -> Finish(r, NULL, "store")

\* mutant of the put: the row of an existing key is kept
PutRowFirstWins(old, tx) ==
  IF old = NoEntry THEN [data |-> tx.data, timestamp |-> tx.ts] ELSE old

\* mutant of the put: the row of an existing key keeps its timestamp
PutRowKeepStamp(old, tx) ==
  [data |-> tx.data,
   timestamp |-> IF old = NoEntry THEN tx.ts ELSE old.timestamp]

\* store.put({ key, data, timestamp }): the row replaces the row of the key
PutRow(old, tx) == [data |-> tx.data, timestamp |-> tx.ts]

\* history of a direct set: the row it replaced
Replaced(r, old) == IF r.fn = "set" THEN [r EXCEPT !.prev = old] ELSE r

\* history: the keys of the rows the call has put, in order, and whether
\* its put is the latest one applied to the key
Wrote(r, key) == [r EXCEPT !.wrote = Append(@, key), !.last = TRUE]
Overwritten(r, key) == IF r.key = key THEN [r EXCEPT !.last = FALSE] ELSE r

\* request.onsuccess of put
StorePut ==
  /\ txq # <<>>
  /\ Head(txq).op = "put"
  /\ LET tx == Head(txq)
         c == tx.owner
     IN /\ store' = [store EXCEPT ![tx.key] = PutRow(store[tx.key], tx)]
        /\ call' = [d \in Calls |->
                      IF d = c
                      THEN Wrote(Replaced(AfterSet(call[c], tx.data, now),
                                          store[tx.key]), tx.key)
                      ELSE Overwritten(call[d], tx.key)]
        /\ negAt' = [negAt EXCEPT ![tx.key] =
                       IF call[c].pend = "404"
                       THEN [t |-> tx.ts, written |-> TRUE] ELSE NoProbe]
  /\ txq' = Tail(txq)
  /\ UNCHANGED <<dash, calc, batch, idb, now, faults, db, purged>>

\* request.onerror of put: set rejects
StorePutError ==
  /\ txq # <<>>
  /\ Head(txq).op = "put"
  /\ faults < MaxFaults
  /\ faults' = faults + 1
  /\ LET tx == Head(txq)
         c == tx.owner
     IN /\ call' = [call EXCEPT ![c] = AfterSetError(call[c], now)]
        /\ negAt' = IF call[c].pend = "404"
                     THEN [negAt EXCEPT ![tx.key] =
                             [t |-> tx.ts, written |-> FALSE]]
                     ELSE negAt
  /\ txq' = Tail(txq)
  /\ UNCHANGED <<dash, calc, batch, idb, now, db, store, purged>>

\* the value handed to cacheService.set: the marker after a 404, else the
\* parsed body
PutData(pend, body) == IF pend = "404" THEN NegMarker ELSE body

\* the body of the retry loop of fetchWithCache from the response on
ApiOnResponse(r, resp, t) ==
  IF resp.status = 0 THEN CatchBlock(r, "neterr", t)
  ELSE IF resp.status = 403 /\ WaitTime(resp.hint, t) > 0 /\ r.i < DefaultRetries
  THEN ThrottleSleep(r, WaitTime(resp.hint, t), t)
  ELSE IF resp.status = 404 THEN AwaitSet(r, "404")
  ELSE IF ~ResponseOk(resp.status)
  THEN CatchBlock(r, IF resp.status = 403 THEN "http403" ELSE "http500", t)
  ELSE IF resp.body = "badjson" THEN CatchBlock(r, "json", t)
  ELSE AwaitSet(r, "ok")

\* the try block of fetchDocFile from the response on
DocOnResponse(r, resp) ==
  IF resp.status = 0 THEN DocCatch(r, "neterr")
  ELSE IF resp.status = 404 THEN AwaitSet(r, "404")
  ELSE IF ~ResponseOk(resp.status)
  THEN DocCatch(r, IF resp.status = 403 THEN "http403" ELSE "http500")
  ELSE IF resp.body = "badjson" THEN DocCatch(r, "json")
  ELSE AwaitSet(r, "ok")

\* the network answers (or fails) the request of call c
NetResponse(c, resp) ==
  /\ call[c].pc = "fetching"
  /\ resp \in Responses(now)
  /\ LET r == call[c]
         r2 == IF r.fn = "api" THEN ApiOnResponse(r, resp, now)
               ELSE DocOnResponse(r, resp)
     IN /\ call' = [call EXCEPT ![c] = r2]
        /\ txq' = IF r2.pc = "putting"
                  THEN Append(txq, Tx("put", r.key, PutData(r2.pend, resp.body),
                                      now, c))
                  ELSE txq
  /\ UNCHANGED <<dash, calc, batch, idb, now, faults, db, store, hist>>

\* the timer of a sleeping call fires: the loop goes to its next iteration.
\* The requested delay is in call[c].sleep; the clock is advanced by Tick,
\* in steps that are coarse against the delays.
Wake(c) ==
  /\ call[c].pc = "sleeping"
  /\ call' = [call EXCEPT ![c] =
                IssueFetch([call[c] EXCEPT !.i = @ + 1, !.sleep = NoSleep])]
  /\ UNCHANGED <<dash, calc, batch, idb, now, faults, db, store, txq, hist>>

\* the caller takes the result; the slot is free for the next call
Release(c) ==
  /\ call[c].pc = "done"
  /\ call' = [call EXCEPT ![c] = IdleCall]
  /\ UNCHANGED <<dash, calc, batch, idb, now, faults, db, store, txq, hist>>

\* time passes
Tick(d) ==
  /\ now + d <= MaxEpochs * CACHE_DURATION + MaxExtra
  /\ now' = now + d
  /\ UNCHANGED <<dash, calc, batch, idb, faults, db, store, txq, call, hist>>

Next ==
  \/ \E c \in Calls, fn \in {"api", "doc", "get", "stats"}, k \in Keys \cup {"none"} :
       Start(c, fn, k)
  \/ \E c \in Calls : OpenSuccess(c)
  \/ \E c \in Calls : OpenError(c)
  \/ StoreGet
  \/ StoreDelete
  \/ StoreGetAll
  \/ StorePut
  \/ StorePutError
  \/ \E c \in Calls, resp \in Responses(now) : NetResponse(c, resp)
  \/ \E c \in Calls : Wake(c)
  \/ \E c \in Calls : Release(c)
  \/ \E d \in TickSteps : Tick(d)

Spec == Init /\ [][Next]_vars

\* the calls with the clock at rest: no row expires, so no purge is issued
NextRetry ==
  \/ \E c \in Calls, fn \in {"api", "doc", "get", "stats"}, k \in Keys \cup {"none"} :
       Start(c, fn, k)
  \/ \E c \in Calls : OpenSuccess(c)
  \/ \E c \in Calls : OpenError(c)
  \/ StoreGet
  \/ StoreGetAll
  \/ StorePut
  \/ StorePutError
  \/ \E c \in Calls, resp \in Responses(now) : NetResponse(c, resp)
  \/ \E c \in Calls : Wake(c)
  \/ \E c \in Calls : Release(c)

SpecRetry == Init /\ [][NextRetry]_vars

FairRetry ==
  /\ SpecRetry
  /\ WF_vars(StoreGet) /\ WF_vars(StoreGetAll)
  /\ WF_vars(StorePut \/ StorePutError)
  /\ WF_vars(\E c \in Calls : OpenSuccess(c) \/ OpenError(c))
  /\ WF_vars(\E c \in Calls, resp \in Responses(now) : NetResponse(c, resp))
  /\ WF_vars(\E c \in Calls : Wake(c))

\* ----------------------------------------------- cache service callers
\* A caller invokes a method of cacheService directly: init, get, set,
\* delete, clearAll or getStats.  With overlap = FALSE the caller awaits each
\* call before the next one.
StartStore(c, fn, k, v, overlap) ==
  /\ call[c].pc = "idle"
  /\ \A d \in Calls : d < c => call[d].pc # "idle"
  /\ overlap \/ \A d \in Calls : call[d].pc = "idle"
  /\ k \in KeysOf(fn)
  /\ v \in IF fn = "set" THEN SetValues ELSE {NULL}
  /\ LET r == [IdleCall EXCEPT !.fn = fn, !.key = k, !.arg = v,
                              !.after = IF fn = "stats" THEN purged ELSE <<>>] IN
       IF HandleSet(db)
       THEN /\ call' = [call EXCEPT ![c] = Proceed(r)]
            /\ txq' = txq \o FirstTxs(r, c)
       ELSE /\ call' = [call EXCEPT ![c] = [r EXCEPT !.pc = "opening"]]
            /\ txq' = txq
  /\ UNCHANGED <<dash, calc, batch, idb, now, faults, db, store, hist>>

\* mutant of the clear: only the expired rows are removed
ClearedStoreExpiredOnly(st, t) ==
  [k \in Keys |-> IF st[k] # NoEntry /\ ~IsExpired(st[k].timestamp, t)
                  THEN st[k] ELSE NoEntry]

\* store.clear()
ClearedStore(st, t) == [k \in Keys |-> NoEntry]

\* the transaction of clearAll: countRequest.onsuccess, store.clear(),
\* clearRequest.onsuccess; the notification carries the count, the promise
\* resolves without a value.  The rows removed are kept in entries as
\* history.
StoreClear ==
  /\ txq # <<>>
  /\ Head(txq).op = "clear"
  /\ LET c == Head(txq).owner IN
       call' = [call EXCEPT ![c] =
                  [Finish(call[c], NULL, "none") EXCEPT
                     !.count = Cardinality(AllEntries(store)),
                     !.entries = AllEntries(store),
                     !.toast = "cleared"]]
  /\ store' = ClearedStore(store, now)
  /\ negAt' = [k \in Keys |-> NoProbe]
  /\ purged' = [k \in Keys |-> -1]
  /\ txq' = Tail(txq)
  /\ UNCHANGED <<dash, calc, batch, idb, now, faults, db>>

\* clearRequest.onerror: a notification of the failure, the promise resolves
StoreClearError ==
  /\ txq # <<>>
  /\ Head(txq).op = "clear"
  /\ faults < MaxFaults
  /\ faults' = faults + 1
  /\ LET c == Head(txq).owner IN
       call' = [call EXCEPT ![c] =
                  [Finish(call[c], NULL, "none") EXCEPT !.toast = "clearfailed"]]
  /\ txq' = Tail(txq)
  /\ UNCHANGED <<dash, calc, batch, idb, now, db, store, hist>>

\* the count request fails: it has no onerror handler, the transaction is
\* aborted and the promise of clearAll is never settled
StoreCountError ==
  /\ txq # <<>>
  /\ Head(txq).op = "clear"
  /\ faults < MaxFaults
  /\ faults' = faults + 1
  /\ call' = [call EXCEPT ![Head(txq).owner].pc = "hung"]
  /\ txq' = Tail(txq)
  /\ UNCHANGED <<dash, calc, batch, idb, now, db, store, hist>>

NextStore ==
  \/ \E c \in Calls,
        fn \in {"init", "get", "set", "delete", "clear", "stats"},
        k \in Keys \cup {"none"}, v \in SetValues \cup {NULL} :
       StartStore(c, fn, k, v, FALSE)
  \/ \E c \in Calls : OpenSuccess(c)
  \/ \E c \in Calls : OpenError(c)
  \/ StoreGet
  \/ StoreDelete
  \/ StoreGetAll
  \/ StorePut
  \/ StorePutError
  \/ StoreClear
  \/ StoreClearError
  \/ StoreCountError
  \/ \E c \in Calls : Release(c)
  \/ \E d \in TickSteps : Tick(d)

SpecStore == Init /\ [][NextStore]_vars

\* every open request and every store request is eventually answered, with
\* success or with an error
FairStore ==
  /\ SpecStore
  /\ \A c \in Calls : WF_vars(OpenSuccess(c) \/ OpenError(c))
  /\ WF_vars(StoreGet) /\ WF_vars(StoreDelete) /\ WF_vars(StoreGetAll)
  /\ WF_vars(StorePut \/ StorePutError)
  /\ WF_vars(StoreClear \/ StoreClearError \/ StoreCountError)

\* overlapping init / get / set / delete calls on a fresh service
NextInit ==
  \/ \E c \in Calls, fn \in {"init", "get", "set", "delete"},
        k \in Keys \cup {"none"}, v \in SetValues \cup {NULL} :
       StartStore(c, fn, k, v, TRUE)
  \/ \E c \in Calls : OpenSuccess(c)
  \/ \E c \in Calls : OpenError(c)
  \/ StoreGet
  \/ StoreDelete
  \/ StorePut
  \/ StorePutError
  \/ \E c \in Calls : Release(c)

SpecInit == Init /\ [][NextInit]_vars

\* ---- overlapping fetchRepository, get and set calls on one key, on a page
\* loaded when the row of an earlier visit, if there is one, has expired
InitRace ==
  /\ now = CACHE_DURATION + MaxExtra
  /\ faults = 0
  /\ db = "null"
  /\ idb = [opens |-> 0, table |-> TRUE]
  /\ \E old \in {NoEntry, [data |-> "obj", timestamp |-> 0]} :
       store = [k \in Keys |-> IF k \in ApiKeys THEN old ELSE NoEntry]
  /\ txq = <<>>
  /\ call = [c \in Calls |-> IdleCall]
  /\ negAt = [k \in Keys |-> NoProbe]
  /\ purged = [k \in Keys |-> -1]
  /\ batch = IdleBatch
  /\ calc = IdleCalc
  /\ dash = IdleDash

NextRace ==
  \/ \E c \in Calls, fn \in {"api", "get", "set"}, k \in ApiKeys,
        v \in SetValues \cup {NULL} :
       StartStore(c, fn, k, v, TRUE)
  \/ \E c \in Calls : OpenSuccess(c)
  \/ StoreGet
  \/ StoreDelete
  \/ StorePut
  \/ \E c \in Calls, resp \in Responses(now) : NetResponse(c, resp)
  \/ \E c \in Calls : Wake(c)
  \/ \E c \in Calls : Release(c)

SpecRace == InitRace /\ [][NextRace]_vars

\* every open request and every store request is eventually answered
FairInit ==
  /\ SpecInit
  /\ \A c \in Calls : WF_vars(OpenSuccess(c) \/ OpenError(c))
  /\ WF_vars(StoreGet) /\ WF_vars(StoreDelete)
  /\ WF_vars(StorePut \/ StorePutError)

\* ------------------------------------------------ batch scheduler actions
\* batchFetch(items, fetchFn, batchSize) is called with n items
BatchFetchStart(n, bs) ==
  /\ batch.pc = "idle"
  /\ LET b == [IdleBatch EXCEPT !.fn = "batchFetch", !.n = n, !.bs = bs] IN
       batch' = IF HasGroup(b, 0) THEN StartGroup(b, 0)
                ELSE [b EXCEPT !.pc = "done", !.ret = "results"]
  /\ UNCHANGED <<dash, calc, pipeline>>

\* checkDocumentationFiles(repo) is called; the descriptor list is cut to its
\* first MaxDocs entries
DocCheckStart ==
  /\ batch.pc = "idle"
  /\ batch' = StartGroup([IdleBatch EXCEPT !.fn = "docs", !.n = MaxDocs,
                                           !.bs = DocBatchSize], 0)
  /\ UNCHANGED <<dash, calc, pipeline>>

\* fetchFn(item) settles: with a truthy value, with a falsy value, or with a
\* rejection that the catch handler turns into null
WorkerSettle(x, outcome) ==
  /\ batch.pc = "running" /\ batch.fn = "batchFetch"
  /\ x \in 1..Len(batch.slots)
  /\ batch.slots[x].state = "pending"
  /\ batch' = Settle([batch EXCEPT !.failed = @ \/ outcome = "reject",
                                   !.rejects = IF outcome = "reject"
                                               THEN @ \cup {batch.slots[x].item}
                                               ELSE @], x,
                     [item |-> batch.slots[x].item, ok |-> outcome = "value",
                      path |-> 0])
  /\ UNCHANGED <<dash, calc, pipeline>>

\* the file of slot x exists at its current path / at none of its paths
DocFound(b, x) ==
  [item |-> b.slots[x].item, ok |-> TRUE, path |-> b.slots[x].path]
DocMissing(b, x) == [item |-> b.slots[x].item, ok |-> FALSE, path |-> 0]

\* fetchDocFile(baseUrl, path) of the worker of slot x returns: data
\* ("found"), null after a 404 ("notfound"), null after a swallowed network
\* failure ("failed"), falsy data of a 2xx response ("falsy"), or it rejects
\* because cacheService.get rejected ("reject").  The path of a slot is the
\* path being probed (the last one probed once the slot is settled); its hit
\* is the first path of the descriptor that was answered 2xx, 0 if none.
DocProbe(x, outcome) ==
  /\ batch.pc = "running" /\ batch.fn = "docs"
  /\ x \in 1..Len(batch.slots)
  /\ batch.slots[x].state = "pending"
  /\ LET b == [batch EXCEPT !.failed = @ \/ outcome \in {"failed", "reject"},
                            !.rejects = IF outcome = "reject"
                                        THEN @ \cup {batch.slots[x].item}
                                        ELSE @,
                            !.slots[x].hit =
                               IF @ = 0 /\ outcome \in {"found", "falsy"}
                               THEN batch.slots[x].path ELSE @] IN
       batch' =
         CASE outcome = "found" -> Settle(b, x, DocFound(b, x))
           [] outcome = "reject" ->
                [b EXCEPT !.pc = "done", !.ret = "null", !.toast = "docs"]
           [] OTHER ->
                IF b.slots[x].path < DocPathCount[b.slots[x].item]
                THEN [b EXCEPT !.slots[x].path = @ + 1]
                ELSE Settle(b, x, DocMissing(b, x))
  /\ UNCHANGED <<dash, calc, pipeline>>

\* the pacing timer fires: the loop goes to the next group
PacingWake ==
  /\ batch.pc = "pacing"
  /\ batch' = StartGroup(batch, IF batch.fn = "batchFetch"
                                THEN batch.i + batch.bs ELSE batch.i + 1)
  /\ UNCHANGED <<dash, calc, pipeline>>

\* the caller takes the result of the run
BatchRelease ==
  /\ batch.pc = "done"
  /\ batch' = IdleBatch
  /\ UNCHANGED <<dash, calc, pipeline>>

NextBatch ==
  \/ \E n \in 0..MaxItems, bs \in {2, 3} : BatchFetchStart(n, bs)
  \/ DocCheckStart
  \/ \E x \in 1..DocBatchSize, o \in {"value", "falsy", "reject"} :
       WorkerSettle(x, o)
  \/ \E x \in 1..DocBatchSize,
        o \in {"found", "notfound", "failed", "falsy", "reject"} :
       DocProbe(x, o)
  \/ PacingWake
  \/ BatchRelease

SpecBatch == Init /\ [][NextBatch]_vars

\* ------------------------------------------- mapper / formatter actions
InitCalc ==
  /\ now = 0
  /\ faults = 0
  /\ db = "null"
  /\ idb = NoDatabase
  /\ store = [k \in Keys |-> NoEntry]
  /\ txq = <<>>
  /\ call = [c \in Calls |-> IdleCall]
  /\ negAt = [k \in Keys |-> NoProbe]
  /\ purged = [k \in Keys |-> -1]
  /\ batch = IdleBatch
  /\ calc \in CalcInputs
  /\ dash = IdleDash

\* formatDuration(ms)
FormatDurationCall ==
  /\ calc.fn = "formatDuration" /\ calc.pc = "in"
  /\ calc' = [calc EXCEPT !.pc = "done", !.text = FormatDuration(calc.d)]
  /\ UNCHANGED <<dash, batch, pipeline>>

\* fetchCodeFrequency(repo) of githubService.ts (no cache) or of
\* cacheService.ts; the upstream array holds calc.item; the data comes from
\* the network or from the cache, or the request fails
FetchCodeFrequencyCall(impl, how) ==
  /\ calc.fn = "fetchCodeFrequency" /\ calc.pc = "in"
  /\ impl = "githubService" => how # "cache"
  /\ calc' =
       [calc EXCEPT
          !.pc = "done", !.impl = impl, !.how = how,
          !.row = IF how = "error" THEN NoRow
                  ELSE IF impl = "githubService" THEN MapCodeFrequency(calc.item)
                  ELSE CachedCodeFrequency(calc.item),
          !.toast = IF how = "error" THEN HandleApiError("http500") ELSE "none"]
  /\ UNCHANGED <<dash, batch, pipeline>>

\* calculateDocScore(results)
CalculateDocScoreCall ==
  /\ calc.fn = "docScore" /\ ~calc.score.set
  /\ calc' = [calc EXCEPT !.score = CalculateDocScore(calc.results)]
  /\ UNCHANGED <<dash, batch, pipeline>>

\* DocumentationChecklist renders docResults; without results it shows
\* "Could not load documentation information" and no score
RenderChecklist ==
  /\ calc.fn = "docScore" /\ ~calc.shown.set
  /\ Len(calc.results) > 0
  /\ calc' = [calc EXCEPT !.shown = ChecklistScore(calc.results)]
  /\ UNCHANGED <<dash, batch, pipeline>>

NextCalc ==
  \/ FormatDurationCall
  \/ \E impl \in {"githubService", "cacheService"},
        how \in {"network", "cache", "error"} : FetchCodeFrequencyCall(impl, how)
  \/ CalculateDocScoreCall
  \/ RenderChecklist

SpecCalc == InitCalc /\ [][NextCalc]_vars

\* ---- the key constructors, applied to one request after another
InitKeys ==
  /\ now = 0
  /\ faults = 0
  /\ db = "null"
  /\ idb = NoDatabase
  /\ store = [k \in Keys |-> NoEntry]
  /\ txq = <<>>
  /\ call = [c \in Calls |-> IdleCall]
  /\ negAt = [k \in Keys |-> NoProbe]
  /\ purged = [k \in Keys |-> -1]
  /\ batch = IdleBatch
  /\ calc = IdleCalc
  /\ dash = IdleDash

\* a function builds its cacheKey for the call q
BuildKey(q) ==
  /\ ~calc.second.set
  /\ calc' = IF ~calc.first.set
             THEN [calc EXCEPT !.fn = "cacheKey",
                               !.first = [set |-> TRUE, req |-> q,
                                          key |-> CacheKeyOf(q)]]
             ELSE [calc EXCEPT !.second = [set |-> TRUE, req |-> q,
                                           key |-> CacheKeyOf(q)]]
  /\ UNCHANGED <<dash, batch, pipeline>>

NextKeys == \E q \in KeyRequests : BuildKey(q)

SpecKeys == InitKeys /\ [][NextKeys]_vars

\* ---- the Dashboard component
\* (with useMockData false, its initial value; the fetches of fetchData
\* resolve with data or null, none of them rejects)
\* handleSearch(repo) where the selection goes through the search box, then
\* the search parameters change and the first effect runs: the selection is
\* set and the data of the previous repository is cleared
SearchParamsChange(r, viaSearch) ==
  /\ Len(dash.runs) < MaxRuns
  /\ dash' = [dash EXCEPT
                !.isLoading = IF viaSearch /\ r # dash.repoFullName
                              THEN TRUE ELSE @,
                !.repoFullName = r,
                !.repository = NULL,
                !.details = NULL]
  /\ UNCHANGED <<calc, batch, pipeline>>

\* the second effect, after a render in which repoFullName has changed:
\* fetchData(repoFullName) sets isLoading and calls fetchRepository
RepoEffect ==
  /\ dash.repoFullName # dash.effect
  /\ dash' = [dash EXCEPT
                !.effect = dash.repoFullName,
                !.isLoading = TRUE,
                !.runs = Append(@, [repo |-> dash.repoFullName,
                                    pc |-> "repository"])]
  /\ UNCHANGED <<calc, batch, pipeline>>

\* `await fetchRepository(repo)` of run x returns the repository or null
RepositoryReturns(x, found) ==
  /\ x \in DOMAIN dash.runs
  /\ dash.runs[x].pc = "repository"
  /\ dash' = IF found
             THEN [dash EXCEPT !.repository = dash.runs[x].repo,
                               !.runs[x].pc = "details"]
             ELSE [dash EXCEPT !.isLoading = FALSE, !.runs[x].pc = "done"]
  /\ UNCHANGED <<calc, batch, pipeline>>

\* `await Promise.all([...])` of run x resolves: the seven results are set
\* and isLoading is cleared
DetailsReturn(x) ==
  /\ x \in DOMAIN dash.runs
  /\ dash.runs[x].pc = "details"
  /\ dash' = [dash EXCEPT !.details = dash.runs[x].repo,
                          !.isLoading = FALSE,
                          !.runs[x].pc = "done"]
  /\ UNCHANGED <<calc, batch, pipeline>>

NextDash ==
  \/ \E r \in DashRepos, viaSearch \in BOOLEAN : SearchParamsChange(r, viaSearch)
  \/ RepoEffect
  \/ \E x \in 1..MaxRuns, found \in BOOLEAN : RepositoryReturns(x, found)
  \/ \E x \in 1..MaxRuns : DetailsReturn(x)

SpecDash == Init /\ [][NextDash]_vars

\* ---- clearDocsCache on a store the dashboard has filled
InitDocs ==
  /\ now = 0
  /\ faults = 0
  /\ db = "null"
  /\ idb = NoDatabase
  /\ \E fill \in [DocRepos -> {"none", "primary", "all"}], api \in BOOLEAN :
       store = DocStore(fill, api)
  /\ txq = <<>>
  /\ call = [c \in Calls |-> IdleCall]
  /\ negAt = [k \in DocStoreKeys |-> NoProbe]
  /\ purged = [k \in DocStoreKeys |-> -1]
  /\ batch = IdleBatch
  /\ calc = IdleCalc
  /\ dash = IdleDash

\* clearDocsCache(repoFullName): the first `await cacheService.delete(...)`;
\* the caller awaits each call before the next one
ClearDocsStart(c, repoFullName) ==
  /\ call[c].pc = "idle"
  /\ \A d \in Calls : d < c => call[d].pc # "idle"
  /\ \A d \in Calls : call[d].pc = "idle"
  /\ LET r == [IdleCall EXCEPT !.fn = "clearDocs", !.arg = repoFullName,
                              !.i = 1, !.key = ClearKeys(repoFullName)[1]] IN
       IF HandleSet(db)
       THEN /\ call' = [call EXCEPT ![c] = Proceed(r)]
            /\ txq' = txq \o FirstTxs(r, c)
       ELSE /\ call' = [call EXCEPT ![c] = [r EXCEPT !.pc = "opening"]]
            /\ txq' = txq
  /\ UNCHANGED <<dash, calc, batch, idb, now, faults, db, store, hist>>

NextDocs ==
  \/ \E c \in Calls, r \in DocRepos : ClearDocsStart(c, r)
  \/ \E c \in Calls : OpenSuccess(c)
  \/ \E c \in Calls : OpenError(c)
  \/ StoreDelete
  \/ \E c \in Calls : Release(c)

SpecDocs == InitDocs /\ [][NextDocs]_vars

\* ================================================================ claims
\* the lookup of call c is answered in this step
LookupStep(c) == call[c].pc = "getting" /\ call'[c].pc # "getting"

\* the row of the key of call c is present and within its time-to-live now
FreshRow(c) ==
  /\ store[call[c].key] # NoEntry
  /\ now - store[call[c].key].timestamp <= CACHE_DURATION

\* the call ended as NotFound: fetchWithCache threw Error('404'),
\* fetchDocFile returned null
NotFoundOutcome(r) ==
  /\ r.pc = "done"
  /\ r.ret = NULL
  /\ IF r.fn = "api" THEN r.err = "404" ELSE r.err = "none" /\ ~r.rejected

\* C1: a fetchWithCache call whose cacheKey holds a non-expired row issues no
\* network call; it returns the stored payload if the row is positive and
\* fails with Error('404') if the row is the negative marker.
C1_CachedEntryServed ==
  [][\A c \in Calls :
       (call[c].fn = "api" /\ LookupStep(c) /\ FreshRow(c)) =>
         /\ call'[c].pc = "done"
         /\ call'[c].net = 0
         /\ IF store[call[c].key].data = NegMarker
            THEN call'[c].err = "404"
            ELSE call'[c].err = "none" /\ call'[c].ret = store[call[c].key].data
    ]_vars

C5_NotFoundNotRetried ==
  [][\A c \in Calls :
       (/\ call[c].fn = "api" /\ call[c].pc = "putting" /\ call[c].pend = "404"
        /\ call'[c] # call[c]) =>
         /\ call'[c].pc = "done" /\ call'[c].err = "404"
         /\ call'[c].net = call[c].net
         /\ store'[call[c].key].data = NegMarker
    ]_vars

\* the last attempt of a call fails in this step
FinalFailure(c) ==
  /\ call[c].fn = "api" /\ call[c].pc = "fetching" /\ call[c].i = DefaultRetries
  /\ call'[c].pc \notin {"fetching", "putting"}

\* C6: a fetchWithCache call that misses the cache terminates after at most
\* maxRetries + 1 network calls; when the last attempt ends in a non-success
\* other than 404 or in a thrown error the call fails with that error at
\* once, without a delay.
C6_BoundedRetries ==
  /\ [](\A c \in Calls : call[c].net <= DefaultRetries + 1)
  /\ [][\A c \in Calls : FinalFailure(c) =>
          /\ call'[c].pc = "done"
          /\ call'[c].err = call'[c].lastError
          /\ call'[c].err \in {"neterr", "json", "http403", "http500"}
          /\ call'[c].sleep = NoSleep]_vars
  /\ \A c \in Calls : (call[c].pc = "fetching") ~> (call[c].pc = "done")

\* a call has failed after its third network call
C6_Witness ==
  \E c \in Calls :
    /\ call[c].fn = "api" /\ call[c].pc = "done"
    /\ call[c].net = DefaultRetries + 1
    /\ call[c].err = "http500"

\* C8: the notification of a failed fetch* call matches the failure class:
\* rate limit (403 after the retries) -> "rate", NotFound -> "notfound",
\* anything else -> "generic".
C8_NotificationMatchesClass ==
  \A c \in Calls :
    (call[c].fn = "api" /\ call[c].pc = "done" /\ call[c].err # "none") =>
      call[c].toast = CASE call[c].err = "http403" -> "rate"
                        [] call[c].err = "404" -> "notfound"
                        [] OTHER -> "generic"

\* C9: when the store cannot be opened, cacheService.get resolves to absent
\* and fetchWithCache goes on to the network call.
C9_StorageFaultIsMiss ==
  [][\A c \in Calls :
       (call[c].pc = "opening" /\ call'[c].pc \notin {"opening", "getting"}) =>
         /\ call[c].fn = "get" =>
              (call'[c].pc = "done" /\ call'[c].ret = NULL /\ ~call'[c].rejected)
         /\ call[c].fn = "api" =>
              (call'[c].pc = "fetching" /\ call'[c].net = 1)
    ]_vars

\* C7: every UI-facing function returns the fetched entity on success and,
\* on any failure of the executor, the network or the cache store, returns
\* null with a notification; it never rejects.
C7_FailureIsNullAndNotice ==
  /\ \A c \in Calls :
       (call[c].fn = "api" /\ call[c].pc = "done") =>
         /\ ~call[c].rejected
         /\ call[c].err # "none" => (call[c].ret = NULL /\ call[c].toast # "none")
  /\ (batch.fn = "docs" /\ batch.pc = "done") =>
       IF batch.failed THEN batch.ret = "null" /\ batch.toast # "none"
       ELSE batch.ret = "results"

\* the results of the items 1..n in input order
OutInOrder(b) == [x \in 1..b.n |-> b.out[x]]

\* the consecutive groups of bs of the items 1..n
ConsecutiveGroups(n, bs) ==
  [g \in 1..((n + bs - 1) \div bs) |->
     [y \in 1..(IF g * bs <= n THEN bs ELSE n - (g - 1) * bs) |->
        (g - 1) * bs + y]]

\* C10: a batch run partitions its input into consecutive groups of
\* batchSize (the last one possibly smaller) and returns the results in the
\* order of the input items, whatever the order in which the workers finish
\* (batchFetch returns the results that pass filter(Boolean)).
C10_BatchOrdering ==
  (batch.pc = "done" /\ batch.ret = "results") =>
    /\ batch.groups = ConsecutiveGroups(batch.n, batch.bs)
    /\ batch.results =
         IF batch.fn = "batchFetch"
         THEN SelectSeq(OutInOrder(batch), LAMBDA v : v.ok)
         ELSE OutInOrder(batch)

\* a run of two groups has returned after the workers of its last group
\* finished out of input order
C10_Witness ==
  /\ batch.pc = "done" /\ batch.ret = "results"
  /\ Len(batch.groups) >= 2
  /\ Len(batch.results) = batch.n
  /\ Len(batch.order) >= 2 /\ batch.order[1] > batch.order[2]

\* the worker of item x was run and did not reject
RanWithoutReject(b, x) == b.out[x].item # 0 /\ x \notin b.rejects

\* C11: when the worker of one item rejects and the workers of its siblings
\* succeed, the batch run still returns a list, every group is run, and the
\* list has one slot per input item: null in the slot of the failed item,
\* the value of every other item in its own slot.
C11_PartialFailureIsolation ==
  (/\ batch.pc = "done"
   /\ Cardinality(batch.rejects) = 1
   /\ \E x \in 1..batch.n : RanWithoutReject(batch, x)
   /\ \A x \in 1..batch.n : RanWithoutReject(batch, x) => batch.out[x].ok) =>
    /\ batch.ret = "results"
    /\ batch.groups = ConsecutiveGroups(batch.n, batch.bs)
    /\ Len(batch.results) = batch.n
    /\ \A x \in 1..batch.n :
         IF x \in batch.rejects THEN ~batch.results[x].ok
         ELSE batch.results[x] = batch.out[x]

\* ceil(n / b) - 1, and 0 for an empty input
PausesExpected(n, bs) == IF n = 0 THEN 0 ELSE (n + bs - 1) \div bs - 1

\* the pauses of run b are the ones between consecutive groups: one after
\* the last item of every group but the last, none after the last group
PausesBetweenGroups(b) ==
  /\ b.pc \in {"running", "done"} /\ b.groups # <<>> =>
       Len(b.pauses) = Len(b.groups) - 1
  /\ b.pc = "pacing" =>
       Len(b.pauses) = Len(b.groups) /\ b.pauses[Len(b.pauses)].after < b.n
  /\ \A g \in 1..Len(b.pauses) : b.pauses[g].after = g * b.bs
  /\ (b.pc = "done" /\ b.ret = "results") =>
       Len(b.pauses) = PausesExpected(b.n, b.bs)

\* C12 as stated: a batch run pauses for 500 ms exactly once between each
\* pair of consecutive groups and never after the last group, ceil(n/b) - 1
\* pauses in all.
C12_BatchPacing ==
  /\ PausesBetweenGroups(batch)
  /\ \A g \in 1..Len(batch.pauses) : batch.pauses[g].delay = 500

\* C12 amended: the same pauses, of 500 ms in checkDocumentationFiles and of
\* 1000 ms in batchFetch.
C12_BatchPacingPerScheduler ==
  /\ PausesBetweenGroups(batch)
  /\ \A g \in 1..Len(batch.pauses) :
       batch.pauses[g].delay = IF batch.fn = "docs" THEN 500 ELSE 1000

\* batchFetch has returned for 5 items in groups of 2: a pause followed
\* index 1 and index 3 (items 2 and 4), none followed index 4
C12_Witness ==
  /\ batch.fn = "batchFetch" /\ batch.pc = "done" /\ batch.ret = "results"
  /\ batch.n = 5 /\ batch.bs = 2
  /\ Len(batch.pauses) = 2
  /\ batch.pauses[1].after = 2 /\ batch.pauses[2].after = 4

\* C13: for each descriptor checkDocumentationFiles probes the paths in
\* listed order, one at a time; after the first path that resolves
\* successfully no further path of the descriptor is probed and the result
\* is exists = true with the URL of that path; if no path resolves the
\* result is exists = false; exactly one result per descriptor is returned.
C13_DocProbing ==
  batch.fn = "docs" =>
    /\ \A s \in 1..Len(batch.slots) :
         LET sl == batch.slots[s] IN
           /\ sl.path \in 1..DocPathCount[sl.item]
           /\ sl.state = "pending" => sl.hit = 0
           /\ sl.state = "settled" =>
                /\ sl.val.item = sl.item
                /\ sl.val.ok <=> sl.hit # 0
                /\ sl.val.ok => sl.val.path = sl.hit /\ sl.path = sl.hit
                /\ ~sl.val.ok => sl.path = DocPathCount[sl.item]
    /\ (batch.pc = "done" /\ batch.ret = "results") =>
         /\ Len(batch.results) = batch.n
         /\ \A x \in 1..batch.n : batch.results[x].item = x

\* C14: for every raw tuple [week, additions, deletions] with deletions <= 0
\* fetchCodeFrequency returns the record {week, additions, |deletions|}, from
\* the network and from the cache.
C14_CodeFrequencyMapping ==
  (/\ calc.fn = "fetchCodeFrequency" /\ calc.pc = "done"
   /\ calc.how \in {"network", "cache"}
   /\ calc.item[3] <= 0) =>
    calc.row = [shape |-> "record", week |-> calc.item[1],
                additions |-> calc.item[2], deletions |-> -calc.item[3]]

\* the unit of the claim: the largest of day > hour > minute > second whose
\* whole count floor(ms / unit) is not zero, second if there is none
ClaimedText(ms) ==
  IF ms \div (24 * 60 * 60 * 1000) # 0
  THEN [n |-> ms \div (24 * 60 * 60 * 1000), unit |-> "day"]
  ELSE IF ms \div (60 * 60 * 1000) # 0
  THEN [n |-> ms \div (60 * 60 * 1000), unit |-> "hour"]
  ELSE IF ms \div (60 * 1000) # 0
  THEN [n |-> ms \div (60 * 1000), unit |-> "minute"]
  ELSE [n |-> ms \div 1000, unit |-> "second"]

\* C15: for every non-negative integer ms formatDuration reports
\* floor(ms / unit) of the largest unit with a non-zero whole count (seconds
\* with count 0 below 1000 ms), with the singular word exactly when the count
\* is 1; null reports "N/A".
C15_DurationFormat ==
  (calc.fn = "formatDuration" /\ calc.pc = "done") =>
    IF calc.d.null THEN calc.text.unit = "N/A"
    ELSE /\ calc.text.n = ClaimedText(calc.d.ms).n
         /\ calc.text.unit = ClaimedText(calc.d.ms).unit
         /\ calc.text.s <=> calc.text.n # 1
         /\ calc.d.ms = 1000 => calc.text = [n |-> 1, unit |-> "second", s |-> FALSE]
         /\ calc.d.ms = 61000 => calc.text = [n |-> 1, unit |-> "minute", s |-> FALSE]
         /\ calc.d.ms = 3700000 => calc.text = [n |-> 1, unit |-> "hour", s |-> FALSE]
         /\ calc.d.ms = 90000000 => calc.text = [n |-> 1, unit |-> "day", s |-> FALSE]

\* formatDuration has answered "1 day" for 90000000 ms
C15_Witness ==
  /\ calc.fn = "formatDuration" /\ calc.pc = "done"
  /\ ~calc.d.null /\ calc.d.ms = 90000000
  /\ calc.text = [n |-> 1, unit |-> "day", s |-> FALSE]

\* the sum of the tier weights of the results of a list that satisfy P
WeightSum(list, P(_)) ==
  LET idx == {x \in 1..Len(list) : P(list[x])}
      RECURSIVE Sum(_)
      Sum(S) == IF S = {} THEN 0
                ELSE LET x == CHOOSE y \in S : TRUE
                     IN Weight(list[x].importance) + Sum(S \ {x})
  IN Sum(idx)

\* C16: for a non-empty list of check results the score is
\* round(100 * (weights of the descriptors that exist) / (weights of all
\* descriptors)), an integer in 0..100, 100 when every descriptor exists and
\* 0 when none does, and the score DocumentationChecklist displays is this
\* same value.
C16_DocScore ==
  (calc.fn = "docScore" /\ Len(calc.results) > 0) =>
    LET list == calc.results
        have == WeightSum(list, LAMBDA r : r.exists)
        all == WeightSum(list, LAMBDA r : TRUE)
    IN /\ calc.score.set =>
            /\ ~calc.score.nan
            /\ calc.score.val \in 0..100
            /\ 2 * all * calc.score.val <= 200 * have + all
            /\ 200 * have + all < 2 * all * (calc.score.val + 1)
            /\ (\A x \in 1..Len(list) : list[x].exists) => calc.score.val = 100
            /\ (\A x \in 1..Len(list) : ~list[x].exists) => calc.score.val = 0
       /\ (calc.score.set /\ calc.shown.set) => calc.shown = calc.score

\* the clearAll of call c succeeds in this step
ClearStep(c) ==
  /\ call[c].fn = "clear" /\ call[c].pc = "clearing"
  /\ call'[c].pc = "done" /\ call'[c].toast = "cleared"

\* the number of rows in the store
RowCount(st) == Cardinality({k \in Keys : st[k] # NoEntry})

\* clearAll removes every row, expired or not, and its count is the number
\* of rows stored when it ran
ClearRemovesAll ==
  \A c \in Calls :
    ClearStep(c) =>
      /\ \A k \in Keys : store'[k] = NoEntry
      /\ call'[c].count = RowCount(store)

\* an empty store stays empty until a set is applied, and getStats reports
\* the rows of the store
EmptyUntilSet ==
  /\ (RowCount(store) = 0 /\ RowCount(store') # 0) =>
       (txq # <<>> /\ Head(txq).op = "put")
  /\ \A c \in Calls :
       (call[c].fn = "stats" /\ call[c].pc = "getting" /\ call'[c].pc = "done") =>
         Cardinality(call'[c].entries) = RowCount(store)

SetStep(c) ==
  /\ call[c].fn = "set" /\ call[c].pc = "putting"
  /\ call'[c].pc = "done" /\ ~call'[c].rejected

\* C18: after set(k, v) completes the store holds for k the payload v with
\* the timestamp of that set (Date.now() when the put was requested),
\* whatever row existed for k before; the other rows are untouched.
C18_SetOverwrites ==
  [][/\ \A c \in Calls :
          SetStep(c) =>
            /\ store'[call[c].key] =
                 [data |-> call[c].arg, timestamp |-> Head(txq).ts]
            /\ Head(txq).ts <= now
            /\ \A k \in Keys \ {call[c].key} : store'[k] = store[k]
     /\ (Len(txq') = Len(txq) + 1 /\ txq'[Len(txq')].op = "put") =>
          txq'[Len(txq')].ts = now
    ]_vars

\* a set has replaced an expired negative row by a payload
C18_Witness ==
  \E c \in Calls :
    /\ call[c].fn = "set" /\ call[c].pc = "done" /\ ~call[c].rejected
    /\ call[c].prev.data = NegMarker
    /\ store[call[c].key].data = "obj"
    /\ store[call[c].key].timestamp - call[c].prev.timestamp > CACHE_DURATION

\* call c is made in this step
CallStep(c) == call[c].pc = "idle" /\ call'[c].pc # "idle"

\* C19: for sequential or overlapping init / get / set / delete calls on a
\* fresh service every call completes, the service ends with a usable store
\* handle on a database that has the cache table, and a call made once the
\* handle is set does not open the store again.
C19_InitIdempotent ==
  /\ [](db = "open" => (idb.table /\ idb.opens >= 1))
  /\ [](\A c \in Calls :
          (call[c].pc = "done" /\ call[c].err = "none") => db = "open")
  /\ [][/\ db = "open" => db' = "open"
        /\ \A c \in Calls :
             (CallStep(c) /\ db = "open") =>
               /\ call'[c].pc # "opening"
               /\ idb' = idb
               /\ call[c].fn = "init" => call'[c].pc = "done"]_vars
  /\ \A c \in Calls :
       (call[c].pc \notin {"idle", "done"}) ~> (call[c].pc = "done")

\* two overlapping first calls have both completed, one of them an init
C19_Witness ==
  /\ \A c \in Calls : call[c].pc = "done" /\ call[c].err = "none"
  /\ \E c \in Calls : call[c].fn = "init"
  /\ idb.opens = 2
  /\ db = "open"

\* C20: every read path of the cache treats a row older than the TTL as
\* absent: get (and with it isDataCached and areDocsCached, which test the
\* value of get) returns absent for it, and getStats neither counts nor
\* lists it.
C20_LazyExpiryEverywhere ==
  [][\A c \in Calls :
       /\ (/\ call[c].fn = "get" /\ LookupStep(c)
           /\ store[call[c].key] # NoEntry
           /\ now - store[call[c].key].timestamp > CACHE_DURATION) =>
            call'[c].ret = NULL
       /\ (call[c].fn = "stats" /\ LookupStep(c)) =>
            \A e \in call'[c].entries : now - e.timestamp <= CACHE_DURATION
    ]_vars

\* C21: cache keys are injective over requests: two requests that differ in
\* resource kind, repository identifier or query parameters (limit, state,
\* documentation path) never get the same cache key, and two identical
\* requests always get the same key, over the key constructors of the fetch
\* functions and of the documentation probes.
C21_KeysInjective ==
  (calc.first.set /\ calc.second.set) =>
    ((UpstreamRequest(calc.first.req) = UpstreamRequest(calc.second.req))
       <=> (calc.first.key = calc.second.key))

\* the issues of a repository whose name ends in ":all", with the default
\* state, and the issues of the repository without that suffix, with the
\* state passed, have been keyed
C21_Witness ==
  /\ calc.first.set /\ calc.second.set
  /\ calc.first.req.fn = "fetchIssues" /\ calc.second.req.fn = "fetchIssues"
  /\ calc.first.req.repo = "o/n:all" /\ calc.second.req.repo = "o/n"
  /\ ~calc.first.req.state.given /\ calc.second.req.state.given
  /\ calc.first.key # calc.second.key

EndedSuccess(r) == r.pc = "done" /\ r.err = "none"
EndedNotFound(r) == r.pc = "done" /\ r.err = "404"

\* C23 as stated: a fetchWithCache call that ends in success or in a live
\* NotFound has written exactly one cache entry, under its own cacheKey;
\* attempts that end in a throttled or other non-success response write
\* nothing, and a call that finally fails has written no entry.
C23_WritesPerCallStated ==
  [][\A c \in Calls :
       call[c].fn = "api" =>
         /\ (call[c].pc = "fetching" /\ call'[c].pc = "sleeping") =>
              (store' = store /\ txq' = txq /\ call'[c].wrote = <<>>)
         /\ (call[c].pc # "done" /\ call'[c].pc = "done") =>
              IF EndedSuccess(call'[c])
                 \/ (EndedNotFound(call'[c]) /\ call'[c].net > 0)
              THEN call'[c].wrote = <<call[c].key>>
              ELSE call'[c].wrote = <<>>
    ]_vars

\* C23: a fetchWithCache call that ends in a success fetched from the
\* network or in a live NotFound has written exactly one cache entry, under
\* its own cacheKey; attempts that end in a throttled or other non-success
\* response write nothing, and a call that finally fails, or that is
\* answered from the cache, has written no entry.
C23_WritesPerCall ==
  [][\A c \in Calls :
       call[c].fn = "api" =>
         /\ (call[c].pc = "fetching" /\ call'[c].pc = "sleeping") =>
              (store' = store /\ txq' = txq /\ call'[c].wrote = <<>>)
         /\ (call[c].pc # "done" /\ call'[c].pc = "done") =>
              IF (EndedSuccess(call'[c]) \/ EndedNotFound(call'[c]))
                 /\ call'[c].net > 0
              THEN call'[c].wrote = <<call[c].key>>
              ELSE call'[c].wrote = <<>>
    ]_vars

\* a call has ended with the payload of its third answer, after a throttled
\* and a failed attempt, and has put one row
C23_Witness ==
  \E c \in Calls :
    /\ call[c].fn = "api" /\ EndedSuccess(call[c])
    /\ call[c].net = 3
    /\ call[c].wrote = <<call[c].key>>
    /\ store[call[c].key] # NoEntry

\* a store request of kind op owned by call c is in the queue q
Queued(q, op, c) == \E j \in DOMAIN q : q[j].op = op /\ q[j].owner = c

\* C24: when a response signals throttling with a reset-time hint in the
\* future and retries remain, fetchWithCache sleeps for
\* min(resetTime - now, 5000 ms) and then re-issues the network call directly,
\* without reading the cache again; the cache is read exactly once per call,
\* before the first attempt.
C24_ThrottleHandling ==
  [][\A c \in Calls :
       call[c].fn = "api" =>
         /\ (call[c].pc = "fetching" /\ call'[c].sleep.kind = "throttle") =>
              /\ call'[c].pc = "sleeping"
              /\ call[c].i < DefaultRetries
              /\ call'[c].sleep.wait > 0
              /\ call'[c].sleep.delay =
                   IF call'[c].sleep.wait < 5000 THEN call'[c].sleep.wait
                   ELSE 5000
         /\ (call[c].pc = "sleeping" /\ call'[c] # call[c]) =>
              /\ call'[c].pc = "fetching"
              /\ call'[c].net = call[c].net + 1
              /\ txq' = txq /\ store' = store
         /\ (Queued(txq', "get", c) /\ ~Queued(txq, "get", c)) =>
              (call[c].pc \in {"idle", "opening"} /\ call'[c].net = 0)
         /\ (call[c].pc = "getting" /\ call'[c].pc = "fetching") =>
              call'[c].net = 1
    ]_vars

\* a call sleeps the capped 5000 ms after a throttled answer whose reset
\* time lies 9000 ms ahead, at a time when the clock has advanced
C24_Witness ==
  \E c \in Calls :
    /\ call[c].fn = "api" /\ call[c].pc = "sleeping"
    /\ call[c].sleep = [kind |-> "throttle", delay |-> 5000, wait |-> 9000]
    /\ now > 0

\* the attempt of this step ended in a non-success status other than 404 or
\* in a thrown network error: the throttle branch was taken (403), or the
\* catch block received the HTTP error or the network error
AttemptFailed(r, r2) ==
  /\ r.pc = "fetching"
  /\ \/ r2.sleep.kind = "throttle"
     \/ (r2.pc \in {"sleeping", "done"}
           /\ r2.lastError \in {"http403", "http500", "neterr"})

\* C25 as stated: after the k-th attempt ends in a non-success status other
\* than 404 or in a thrown network error, and retries remain,
\* fetchWithCache waits k * 1000 ms before the next attempt.
C25_LinearBackoffStated ==
  [][\A c \in Calls :
       (/\ call[c].fn = "api"
        /\ AttemptFailed(call[c], call'[c])
        /\ call[c].i < DefaultRetries) =>
         /\ call'[c].pc = "sleeping"
         /\ call'[c].sleep.delay = call[c].net * 1000
    ]_vars

\* C25: after the k-th attempt ends in a non-success status other than 404
\* that is not handled as throttling, or in a thrown network error, and
\* retries remain, fetchWithCache waits k * 1000 ms before the next attempt
\* (1000 ms then 2000 ms with the default maxRetries = 2).
C25_LinearBackoff ==
  [][\A c \in Calls :
       (/\ call[c].fn = "api"
        /\ AttemptFailed(call[c], call'[c])
        /\ call'[c].sleep.kind # "throttle"
        /\ call[c].i < DefaultRetries) =>
         /\ call'[c].pc = "sleeping"
         /\ call'[c].sleep.kind = "backoff"
         /\ call'[c].sleep.delay = call[c].net * 1000
         /\ call[c].net = call[c].i + 1
    ]_vars

\* a call waits 2000 ms after its second attempt was answered 500
C25_Witness ==
  \E c \in Calls :
    /\ call[c].fn = "api" /\ call[c].pc = "sleeping"
    /\ call[c].net = 2 /\ call[c].lastError = "http500"
    /\ call[c].sleep = [kind |-> "backoff", delay |-> 2000, wait |-> 0]

\* the workers of the run that have been started and have not settled
InFlight(b) == {x \in DOMAIN b.slots : b.slots[x].state = "pending"}

\* C26: within a batch run no worker of group k + 1 is started before every
\* worker of group k has settled and the inter-batch delay has elapsed, so at
\* most batchSize workers are in flight at any time, and all workers of one
\* group are started before any of them is awaited.
C26_GroupSerialization ==
  [][/\ Len(batch'.groups) > Len(batch.groups) =>
          /\ batch.pc \in {"idle", "pacing"}
          /\ InFlight(batch) = {}
          /\ batch.pc = "pacing" =>
               /\ Len(batch.pauses) = Len(batch.groups)
               /\ batch.pauses[Len(batch.pauses)].after =
                    batch.slots[Len(batch.slots)].item
          /\ Len(batch'.groups) = Len(batch.groups) + 1
          /\ LET g == batch'.groups[Len(batch'.groups)] IN
               /\ Len(batch'.slots) = Len(g)
               /\ \A x \in DOMAIN g : batch'.slots[x].item = g[x]
               /\ InFlight(batch') = DOMAIN g
     /\ batch'.fn # "none" => Cardinality(InFlight(batch')) <= batch'.bs
    ]_vars

\* the two workers of the second group of a run of five items in groups of
\* two are in flight, after the pause that followed the first group
C26_Witness ==
  /\ batch.fn = "batchFetch" /\ batch.n = 5 /\ batch.bs = 2
  /\ batch.pc = "running"
  /\ Len(batch.groups) = 2 /\ Len(batch.pauses) = 1
  /\ Cardinality(InFlight(batch)) = 2

\* C28: the purge triggered by an expired read never removes a newer entry:
\* if a set for key k is applied after get has read the expired entry of k,
\* the entry written by that set is still in the store once the background
\* delete of the get has run, under every interleaving of get, its
\* un-awaited delete and concurrent set calls.
C28_PurgeSparesNewerEntry ==
  [][(/\ txq # <<>>
      /\ Head(txq).op = "delete" /\ Head(txq).owner = 0
      /\ store'[Head(txq).key] = NoEntry) =>
        \/ store[Head(txq).key] = NoEntry
        \/ IsExpired(store[Head(txq).key].timestamp, now)
    ]_vars

\* calls c and d are two fetchWithCache calls for the same key, each of
\* which found the key uncached and has put its row
BothWrote(c, d) ==
  /\ c # d
  /\ call[c].fn = "api" /\ call[d].fn = "api"
  /\ call[c].key = call[d].key
  /\ call[c].pc = "done" /\ call[d].pc = "done"
  /\ call[c].wrote = <<call[c].key>> /\ call[d].wrote = <<call[d].key>>

\* what a get of key k returns at time t
GetResult(k, t) ==
  IF store[k] = NoEntry \/ t - store[k].timestamp > CACHE_DURATION THEN NULL
  ELSE store[k].data

\* the value a call has handed to set: its payload, or the marker
PutBy(r) == IF r.err = "404" THEN NegMarker ELSE r.ret

\* C27: when two fetchWithCache calls for the same uncached key overlap,
\* neither joins the other; each issues its own network call and its own
\* cache write, and after both have completed get returns the payload of
\* whichever write was applied last.
C27_NoCoalescing ==
  [][\A c \in Calls, d \in Calls :
       (c # d /\ call[c].fn = "api" /\ call[d].fn = "api"
        /\ call[c].key = call[d].key) =>
         /\ (/\ call[c].pc = "getting" /\ call'[c].pc # "getting"
             /\ call[d].pc \in {"getting", "fetching", "sleeping", "putting"}
             /\ GetResult(call[c].key, now) = NULL) =>
               /\ call'[c].pc = "fetching" /\ call'[c].net = 1
               /\ call'[d] = call[d]
         /\ (BothWrote(c, d) /\ txq = <<>> /\ call[c].last)' =>
               /\ call'[c].net >= 1 /\ call'[d].net >= 1
               /\ ~call'[d].last
               /\ GetResult(call[c].key, now)' = PutBy(call'[c])
    ]_vars

\* two overlapping calls have been answered different payloads and both
\* have written; the row holds the payload of the call whose put came last,
\* which is not the payload of the other
C27_Witness ==
  \E c \in Calls, d \in Calls :
    /\ BothWrote(c, d) /\ txq = <<>>
    /\ call[c].last
    /\ call[c].net = 1 /\ call[d].net = 1
    /\ call[c].ret = "obj" /\ call[d].ret = "obj404"
    /\ store[call[c].key].data = "obj"

\* the put request of call c fails in this step
PutFails(c) ==
  /\ txq # <<>>
  /\ Head(txq).op = "put" /\ Head(txq).owner = c
  /\ faults' = faults + 1

\* C29: a failing cache write does not change the outcome of a fetch: if the
\* network call succeeds (2xx) and the subsequent cacheService.set rejects,
\* fetchWithCache still returns the fetched payload and issues no further
\* network call; a set failure after a 404 response still yields NotFound
\* without a retry.
C29_WriteFailureKeepsOutcome ==
  [][\A c \in Calls :
       (call[c].fn = "api" /\ PutFails(c)) =>
         /\ call'[c].pc = "done"
         /\ call'[c].net = call[c].net
         /\ IF call[c].pend = "404" THEN NotFoundOutcome(call'[c])
            ELSE call'[c].ret = Head(txq).data /\ call'[c].err = "none"
    ]_vars

\* C30: the negative marker is disjoint from positive payloads: every payload
\* that was cached from a successful response, falsy JSON bodies and objects
\* with a field status = 404 included, is served from the cache as that same
\* payload by the next fetchWithCache / fetchDocFile call within the TTL,
\* without a network call and without being reported as not found.
C30_MarkerDisjointFromPayloads ==
  [][\A c \in Calls :
       (/\ call[c].fn \in {"api", "doc"}
        /\ LookupStep(c)
        /\ store[call[c].key] # NoEntry
        /\ store[call[c].key].data \in Bodies
        /\ now - store[call[c].key].timestamp <= CACHE_DURATION) =>
         /\ call'[c].pc = "done"
         /\ call'[c].net = 0
         /\ call'[c].ret = store[call[c].key].data
         /\ call'[c].err = "none"
    ]_vars

\* run x of fetchData moves on in this step
RunStep(x) ==
  /\ x \in DOMAIN dash.runs
  /\ dash'.runs[x].pc # dash.runs[x].pc

\* C31: dashboard data belongs to the selected repository: when the selected
\* repository changes from A to B while fetchData(A) is in flight, no result
\* of fetchData(A) is stored into the dashboard state after the change, and
\* isLoading does not become false before fetchData(B) has finished.
C31_DataOfSelectedRepository ==
  [][\A x \in 1..MaxRuns :
       (RunStep(x) /\ dash.runs[x].repo # dash.repoFullName) =>
         /\ dash'.repository = dash.repository
         /\ dash'.details = dash.details
         /\ dash'.isLoading = dash.isLoading
    ]_vars

\* the row of the key of call c is in the store and older than the TTL
ExpiredRow(c) ==
  /\ store[call[c].key] # NoEntry
  /\ IsExpired(store[call[c].key].timestamp, now)

\* C32: reads do not extend an entry's life: a get that hits a fresh entry,
\* a get that misses and a fetchWithCache call served from the cache leave
\* the store unchanged and queue no write and no delete; a row's timestamp
\* changes only when a put is applied, so the row expires 15 minutes after
\* its last write however often it is read.
C32_ReadsDoNotExtendLife ==
  [][/\ \A c \in Calls :
          (call[c].fn \in {"get", "api"} /\ LookupStep(c) /\ ~ExpiredRow(c)) =>
            /\ store' = store
            /\ txq' = Tail(txq)
     /\ \A k \in Keys :
          (store'[k] # NoEntry /\ store'[k].timestamp # store[k].timestamp) =>
            /\ txq # <<>>
            /\ Head(txq).op = "put" /\ Head(txq).key = k
            /\ store'[k].timestamp = Head(txq).ts
    ]_vars

\* a fetchWithCache call was served from a row written earlier, and the row
\* still carries the time of its write
C32_Witness ==
  \E c \in Calls :
    /\ call[c].fn = "api" /\ call[c].pc = "done" /\ call[c].net = 0
    /\ call[c].err = "none"
    /\ store[call[c].key] # NoEntry
    /\ call[c].ret = store[call[c].key].data
    /\ store[call[c].key].timestamp < now

\* C33: clearAll always completes: once the store is open, every clearAll
\* call eventually resolves, whatever the outcome of its count request and
\* of its clear request, so that handleClearCache goes on to onCacheCleared.
C33_ClearAllCompletes ==
  \A c \in Calls :
    (call[c].fn = "clear" /\ call[c].pc = "clearing") ~> (call[c].pc = "done")

\* a 403 response whose reset hint is missing or not in the future
Unhinted403(resp, t) ==
  /\ resp.status = 403
  /\ resp.hint = NoHint \/ resp.hint <= t

\* record r with the error "http500" read as "http403"
As403(r) ==
  [r EXCEPT !.lastError = IF @ = "http500" THEN "http403" ELSE @,
            !.err = IF @ = "http500" THEN "http403" ELSE @]

\* C34: a 403 response whose reset hint is missing or already elapsed is
\* handled like any other non-success response: it takes one attempt of the
\* retry budget, is followed by the backoff delay of 1000 ms times the number
\* of the attempt when retries remain, writes no cache entry, and on the
\* final attempt the call fails with 'HTTP error! Status: 403'.
C34_Unhinted403IsPlainFailure ==
  [][\A c \in Calls : \A resp \in Responses(now) :
       (call[c].fn = "api" /\ Unhinted403(resp, now) /\ NetResponse(c, resp)) =>
         /\ call'[c] = As403(ApiOnResponse(call[c],
                        [status |-> 500, body |-> "none", hint |-> NoHint], now))
         /\ call[c].net = call[c].i + 1
         /\ call'[c].net = call[c].net
         /\ call'[c].lastError = "http403"
         /\ call'[c].wrote = <<>> /\ txq' = txq /\ store' = store
         /\ IF call[c].i < DefaultRetries
            THEN /\ call'[c].pc = "sleeping"
                 /\ call'[c].i = call[c].i
                 /\ call'[c].sleep.kind = "backoff"
                 /\ call'[c].sleep.delay = 1000 * (call[c].i + 1)
            ELSE /\ call'[c].pc = "done"
                 /\ call'[c].err = "http403"
                 /\ call'[c].ret = NULL
                 /\ call'[c].net = DefaultRetries + 1
    ]_vars

\* the second attempt of a fetchWithCache call was answered 403 with no
\* wait to honour, and the call sleeps for the backoff delay
C34_Witness ==
  \E c \in Calls :
    /\ call[c].fn = "api" /\ call[c].pc = "sleeping"
    /\ call[c].lastError = "http403"
    /\ call[c].sleep.kind = "backoff"
    /\ call[c].i = 1

====
